---- MODULE Spec2Model ----
(***************************************************************************)
(* A model of the blaze search engine core: sorted-set algebra, the index  *)
(* builder, the atomic index writer, the index reader, the evaluator and   *)
(* the daemon's hot swap of the shared reader.                             *)
(***************************************************************************)
EXTENDS Integers, Sequences, FiniteSets, TLC

(***************************************************************************)
(* Generic helpers                                                         *)
(***************************************************************************)
Min(x, y) == IF x < y THEN x ELSE y

Max(x, y) == IF x > y THEN x ELSE y

Range(s) == {s[i] : i \in 1..Len(s)}

\* Strictly ascending sequence (sorted, duplicate-free).
StrictlyAscending(s) == \A i \in 1..(Len(s) - 1) : s[i] < s[i + 1]

\* Sorted, duplicates allowed.
SortedSeq(s) == \A i \in 1..(Len(s) - 1) : s[i] <= s[i + 1]

\* The value of K at v: v is computed once and named by K's parameter.
With(v, K(_)) == K(v)

\* n copies of v.
Rep(v, n) == [i \in 1..n |-> v]

\* The ascending sequence of a finite set of integers.
RECURSIVE SetToSeq(_)
SetToSeq(S) ==
    IF S = {} THEN <<>>
    ELSE LET m == CHOOSE x \in S : \A y \in S : x <= y
         IN <<m>> \o SetToSeq(S \ {m})

(***************************************************************************)
(* Set algebra: crates/engine/src/eval/helpers.rs                          *)
(* Slices are 0-based in the source; s[i] of the source is s[i + 1] here.  *)
(***************************************************************************)

\* intersect_sorted_into: linear merge.
RECURSIVE IntersectSortedLoop(_, _, _, _, _)
IntersectSortedLoop(a, b, i, j, out) ==
    IF ~(i < Len(a) /\ j < Len(b)) THEN out
    ELSE IF a[i + 1] < b[j + 1] THEN IntersectSortedLoop(a, b, i + 1, j, out)
    ELSE IF a[i + 1] > b[j + 1] THEN IntersectSortedLoop(a, b, i, j + 1, out)
    ELSE IntersectSortedLoop(a, b, i + 1, j + 1, Append(out, a[i + 1]))

intersect_sorted(a, b) ==
    IF Len(a) = 0 \/ Len(b) = 0 THEN <<>>
    ELSE IntersectSortedLoop(a, b, 0, 0, <<>>)

\* slice::binary_search on a sorted slice: Ok(offset) of some match, or
\* Err(offset) with the insertion point.  With several matches the standard
\* library may return any of them; pick selects the first or the last.
BinarySearch(slice, elem, pick) ==
    LET hits == {k \in 0..(Len(slice) - 1) : slice[k + 1] = elem}
        less == Cardinality({k \in 0..(Len(slice) - 1) : slice[k + 1] < elem})
    IN IF hits = {} THEN [ok |-> FALSE, offset |-> less]
       ELSE [ok |-> TRUE,
             offset |-> IF pick = "first"
                        THEN CHOOSE k \in hits : \A h \in hits : k <= h
                        ELSE CHOOSE k \in hits : \A h \in hits : k >= h]

\* The exponential search of galloping_intersect_into.
RECURSIVE GallopExp(_, _, _, _)
GallopExp(large, large_idx, step, elem) ==
    IF large_idx + step < Len(large) /\ large[large_idx + step + 1] < elem
    THEN GallopExp(large, large_idx + step, step * 2, elem)
    ELSE [large_idx |-> large_idx, step |-> step]

\* galloping_intersect_into: k is the index of the next element of small.
RECURSIVE GallopLoop(_, _, _, _, _, _)
GallopLoop(small, large, k, large_idx, out, pick) ==
    IF k >= Len(small) THEN out
    ELSE
      LET elem == small[k + 1]
          e == GallopExp(large, large_idx, 1, elem)
          search_end == Min(e.large_idx + e.step + 1, Len(large))
          r == BinarySearch(SubSeq(large, e.large_idx + 1, search_end), elem, pick)
          out2 == IF r.ok THEN Append(out, elem) ELSE out
          idx2 == IF r.ok THEN e.large_idx + r.offset + 1 ELSE e.large_idx + r.offset
      IN IF idx2 >= Len(large) THEN out2
         ELSE GallopLoop(small, large, k + 1, idx2, out2, pick)

galloping_intersect(small, large, pick) == GallopLoop(small, large, 0, 0, <<>>, pick)

UsesGalloping(a, b) ==
    Len(a) > 0 /\ Len(b) > 0 /\ Min(Len(a), Len(b)) * 8 < Max(Len(a), Len(b))

\* intersect_adaptive_into
intersect_adaptive(a, b, pick) ==
    IF Len(a) = 0 \/ Len(b) = 0 THEN <<>>
    ELSE LET small == IF Len(a) < Len(b) THEN a ELSE b
             large == IF Len(a) < Len(b) THEN b ELSE a
         IN IF Len(small) * 8 < Len(large)
            THEN galloping_intersect(small, large, pick)
            ELSE intersect_sorted(a, b)

RECURSIVE UnionSortedLoop(_, _, _, _, _)
UnionSortedLoop(a, b, i, j, out) ==
    IF ~(i < Len(a) /\ j < Len(b))
    THEN out \o SubSeq(a, i + 1, Len(a)) \o SubSeq(b, j + 1, Len(b))
    ELSE IF a[i + 1] < b[j + 1] THEN UnionSortedLoop(a, b, i + 1, j, Append(out, a[i + 1]))
    ELSE IF a[i + 1] > b[j + 1] THEN UnionSortedLoop(a, b, i, j + 1, Append(out, b[j + 1]))
    ELSE UnionSortedLoop(a, b, i + 1, j + 1, Append(out, a[i + 1]))

\* union_sorted with the Equal arm advancing only i: the equal element of b
\* is emitted again on the next round.
RECURSIVE UnionKeepBothLoop(_, _, _, _, _)
UnionKeepBothLoop(a, b, i, j, out) ==
    IF ~(i < Len(a) /\ j < Len(b))
    THEN out \o SubSeq(a, i + 1, Len(a)) \o SubSeq(b, j + 1, Len(b))
    ELSE IF a[i + 1] < b[j + 1] THEN UnionKeepBothLoop(a, b, i + 1, j, Append(out, a[i + 1]))
    ELSE IF a[i + 1] > b[j + 1] THEN UnionKeepBothLoop(a, b, i, j + 1, Append(out, b[j + 1]))
    ELSE UnionKeepBothLoop(a, b, i + 1, j, Append(out, a[i + 1]))

UnionSortedMut(a, b) == UnionKeepBothLoop(a, b, 0, 0, <<>>)

union_sorted(a, b) == UnionSortedLoop(a, b, 0, 0, <<>>)

RECURSIVE DiffSortedLoop(_, _, _, _, _)
DiffSortedLoop(base, sub, i, j, out) ==
    IF ~(i < Len(base) /\ j < Len(sub))
    THEN out \o SubSeq(base, i + 1, Len(base))
    ELSE IF base[i + 1] < sub[j + 1]
         THEN DiffSortedLoop(base, sub, i + 1, j, Append(out, base[i + 1]))
    ELSE IF base[i + 1] > sub[j + 1] THEN DiffSortedLoop(base, sub, i, j + 1, out)
    ELSE DiffSortedLoop(base, sub, i + 1, j + 1, out)

diff_sorted(base, sub) == DiffSortedLoop(base, sub, 0, 0, <<>>)

(***************************************************************************)
(* Strings, paths and integers                                             *)
(* A string is the sequence of its bytes (ASCII codes).  A path is the     *)
(* list of its components plus whether it is absolute, as std::path::Path  *)
(* sees it.  An Option is a record [some, val].                            *)
(* TLC's integers are 32-bit signed, so the model's u32 is 31 bits wide:   *)
(* U32_MAX, the "no directory" sentinel, is the largest value of the       *)
(* model's word as u32::MAX is the largest of the source's.                *)
(***************************************************************************)
U32_MAX == 2147483647

Some(v) == [some |-> TRUE, val |-> v]

Last(s) == s[Len(s)]

Front(s) == SubSeq(s, 1, Len(s) - 1)

Reverse(s) == [i \in 1..Len(s) |-> s[Len(s) + 1 - i]]

\* [T]::sort_unstable, by insertion.
RECURSIVE InsertSorted(_, _)
InsertSorted(s, v) ==
    IF s = <<>> THEN <<v>>
    ELSE IF v <= s[1] THEN <<v>> \o s
    ELSE <<s[1]>> \o InsertSorted(Tail(s), v)

RECURSIVE sort_unstable(_)
sort_unstable(s) ==
    IF s = <<>> THEN <<>> ELSE InsertSorted(sort_unstable(Tail(s)), s[1])

\* HashMap: a function on the set of its keys.
EmptyMap == [k \in {} |-> 0]

MapPut(m, k, v) == (k :> v) @@ m

\* map.entry(k).or_default().push(v)
MapPush(m, k, v) ==
    IF k \in DOMAIN m THEN [m EXCEPT ![k] = Append(@, v)] ELSE MapPut(m, k, <<v>>)

\* x & y on non-negative integers.
RECURSIVE BitAnd(_, _)
BitAnd(x, y) ==
    IF x = 0 \/ y = 0 THEN 0
    ELSE (x % 2) * (y % 2) + 2 * BitAnd(x \div 2, y \div 2)

\* str::starts_with
StartsWith(s, prefix) ==
    Len(prefix) <= Len(s) /\ SubSeq(s, 1, Len(prefix)) = prefix

\* str::contains
Contains(s, needle) ==
    \E k \in 0..(Len(s) - Len(needle)) : SubSeq(s, k + 1, k + Len(needle)) = needle

\* u8::to_ascii_lowercase, and trigram.rs ascii_fold
to_ascii_lowercase(b) == IF b \in 65..90 THEN b + 32 ELSE b

ascii_fold(b) == IF b \in 65..90 THEN b + 32 ELSE b

LowerStr(s) == [i \in 1..Len(s) |-> to_ascii_lowercase(s[i])]

\* str::split(sep).filter(|s| !s.is_empty())
RECURSIVE SplitNonEmpty(_, _, _)
SplitNonEmpty(s, sep, cur) ==
    IF s = <<>> THEN (IF cur = <<>> THEN <<>> ELSE <<cur>>)
    ELSE IF s[1] = sep
         THEN (IF cur = <<>> THEN <<>> ELSE <<cur>>) \o SplitNonEmpty(Tail(s), sep, <<>>)
         ELSE SplitNonEmpty(Tail(s), sep, Append(cur, s[1]))

\* [&str]::join(sep)
RECURSIVE JoinWith(_, _)
JoinWith(parts, sep) ==
    IF parts = <<>> THEN <<>>
    ELSE IF Len(parts) = 1 THEN parts[1]
    ELSE parts[1] \o sep \o JoinWith(Tail(parts), sep)

Str_slash == <<47>>                                   \* "/"
Str_dot == <<46>>                                     \* "."
Str_dotdot == <<46, 46>>                              \* ".."

(***************************************************************************)
(* std::path::Path                                                         *)
(***************************************************************************)
EmptyPath == [abs |-> FALSE, comps |-> <<>>]

AbsPath(comps) == [abs |-> TRUE, comps |-> comps]

NoPath == [some |-> FALSE, val |-> EmptyPath]

\* Path::as_os_str().as_bytes(), Path::to_string_lossy()
PathBytes(p) == (IF p.abs THEN Str_slash ELSE <<>>) \o JoinWith(p.comps, Str_slash)

PathIsEmpty(p) == ~p.abs /\ p.comps = <<>>

\* Path::strip_prefix
strip_prefix(p, base) ==
    IF /\ p.abs = base.abs
       /\ Len(base.comps) <= Len(p.comps)
       /\ SubSeq(p.comps, 1, Len(base.comps)) = base.comps
    THEN [ok |-> TRUE,
          path |-> [abs |-> FALSE,
                    comps |-> SubSeq(p.comps, Len(base.comps) + 1, Len(p.comps))]]
    ELSE [ok |-> FALSE, path |-> p]

\* Path::parent: None for "" and for "/".
PathParent(p) ==
    IF p.comps = <<>> THEN NoPath
    ELSE Some([abs |-> p.abs, comps |-> Front(p.comps)])

\* Path::file_name, as an Option of a string.
PathFileName(p) ==
    IF p.comps = <<>> THEN [some |-> FALSE, val |-> <<>>] ELSE Some(Last(p.comps))

(***************************************************************************)
(* Trigrams: crates/engine/src/trigram.rs                                  *)
(***************************************************************************)
\* Trigram::from_bytes: b0 | b1 << 8 | b2 << 16
from_bytes(b0, b1, b2) == b0 + b1 * 256 + b2 * 65536

normalize_for_trigram_bytes(input) == [i \in 1..Len(input) |-> ascii_fold(input[i])]

\* All windows of three bytes, sorted and deduplicated.
build_trigrams_from_normalized(normalized) ==
    IF Len(normalized) < 3 THEN <<>>
    ELSE SetToSeq({from_bytes(normalized[i], normalized[i + 1], normalized[i + 2]) :
                      i \in 1..(Len(normalized) - 2)})

build_trigrams_for_bytes(bytes) ==
    build_trigrams_from_normalized(normalize_for_trigram_bytes(bytes))

build_trigrams_for_string(s) ==
    build_trigrams_from_normalized(normalize_for_trigram_bytes(s))

\* The trigrams build_query_trigrams pushes before it sorts: one at every
\* third offset, and the last window when the length is above 3 and not a
\* multiple of 3.
QueryTrigramsPushed(bytes) ==
    {from_bytes(bytes[i + 1], bytes[i + 2], bytes[i + 3]) :
        i \in {j \in 0..(Len(bytes) - 3) : j % 3 = 0}}
    \cup (IF Len(bytes) > 3 /\ Len(bytes) % 3 # 0
          THEN {from_bytes(bytes[Len(bytes) - 2], bytes[Len(bytes) - 1], bytes[Len(bytes)])}
          ELSE {})

\* build_query_trigrams over the text as written, without the case folding.
QueryTrigramsUnfolded(text) ==
    IF Len(text) < 3 THEN <<>> ELSE SetToSeq(QueryTrigramsPushed(text))

build_query_trigrams(text) ==
    With(normalize_for_trigram_bytes(text), LAMBDA bytes :
        IF Len(bytes) < 3 THEN <<>> ELSE SetToSeq(QueryTrigramsPushed(bytes)))

\* builder.rs path_trigrams (unix): trigrams of the raw path bytes.
path_trigrams(path) == build_trigrams_for_bytes(PathBytes(path))
(***************************************************************************)
(* File and noise flags: crates/engine/src/index/flags.rs, with the        *)
(* component lists of crates/runtime/src/config.rs.  Flag sets are the     *)
(* integers of their bits.                                                 *)
(***************************************************************************)
IS_DIR == 1
IS_SYMLINK == 2
SPECIAL == 4
HIDDEN == 8
EXCLUDED_GLOB == 16
EXCLUDED_USER == 32
IN_TRASH == 64

SYSTEM_DIR == 1
BUILD_DIR == 2
CACHE_DIR == 4
HASHY_SEG == 8
VERY_DEEP == 16
APP_DATA_DIR == 32
LOG_DIR == 64

VERY_DEEP_THRESHOLD == 15

\* runtime/src/config.rs SYSTEM_ROOTS (target_os = "linux")
SYSTEM_ROOTS ==
    {<<47, 117, 115, 114, 47>>,  \* "/usr/"
     <<47, 108, 105, 98, 47>>,  \* "/lib/"
     <<47, 108, 105, 98, 54, 52, 47>>,  \* "/lib64/"
     <<47, 111, 112, 116, 47>>,  \* "/opt/"
     <<47, 115, 110, 97, 112, 47>>,  \* "/snap/"
     <<47, 102, 108, 97, 116, 112, 97, 107, 47>>,  \* "/flatpak/"
     <<47, 118, 97, 114, 47>>,  \* "/var/"
     <<47, 101, 116, 99, 47>>,  \* "/etc/"
     <<47, 115, 121, 115, 47>>,  \* "/sys/"
     <<47, 112, 114, 111, 99, 47>>}  \* "/proc/"

\* Build, dependency and VCS directories.
NOISY_COMPONENTS ==
    {<<110, 111, 100, 101, 95, 109, 111, 100, 117, 108, 101, 115>>,  \* "node_modules"
     <<116, 97, 114, 103, 101, 116>>,  \* "target"
     <<98, 117, 105, 108, 100>>,  \* "build"
     <<100, 105, 115, 116>>,  \* "dist"
     <<111, 117, 116>>,  \* "out"
     <<46, 110, 101, 120, 116>>,  \* ".next"
     <<46, 103, 105, 116>>,  \* ".git"
     <<46, 104, 103>>,  \* ".hg"
     <<46, 115, 118, 110>>,  \* ".svn"
     <<46, 118, 101, 110, 118>>,  \* ".venv"
     <<118, 101, 110, 118>>,  \* "venv"
     <<115, 105, 116, 101, 45, 112, 97, 99, 107, 97, 103, 101, 115>>,  \* "site-packages"
     <<46, 116, 111, 120>>,  \* ".tox"
     <<118, 101, 110, 100, 111, 114>>,  \* "vendor"
     <<46, 99, 97, 114, 103, 111>>}  \* ".cargo"

\* Cache directories.
CACHE_COMPONENTS ==
    {<<46, 99, 97, 99, 104, 101>>,  \* ".cache"
     <<99, 97, 99, 104, 101>>,  \* "cache"
     <<46, 103, 114, 97, 100, 108, 101>>,  \* ".gradle"
     <<46, 109, 50>>,  \* ".m2"
     <<46, 110, 112, 109>>,  \* ".npm"
     <<46, 112, 105, 112>>,  \* ".pip"
     <<99, 97, 99, 104, 101, 115>>,  \* "caches"
     <<95, 95, 112, 121, 99, 97, 99, 104, 101, 95, 95>>}  \* "__pycache__"

\* Log and debug directories.
LOG_COMPONENTS ==
    {<<108, 111, 103, 115>>,  \* "logs"
     <<108, 111, 103>>,  \* "log"
     <<100, 101, 98, 117, 103>>,  \* "debug"
     <<115, 101, 115, 115, 105, 111, 110, 115, 116, 111, 114, 101, 45, 108, 111, 103, 115>>,  \* "sessionstore-logs"
     <<99, 114, 97, 115, 104, 45, 114, 101, 112, 111, 114, 116, 115>>,  \* "crash-reports"
     <<99, 114, 97, 115, 104, 114, 101, 112, 111, 114, 116, 101, 114>>,  \* "crashreporter"
     <<116, 101, 108, 101, 109, 101, 116, 114, 121>>,  \* "telemetry"
     <<100, 105, 97, 103, 110, 111, 115, 116, 105, 99, 115>>}  \* "diagnostics"

is_system_path(path) == \E root \in SYSTEM_ROOTS : StartsWith(path, root)

is_noisy_component(comp) == comp \in NOISY_COMPONENTS

is_cache_component(comp) == comp \in CACHE_COMPONENTS

is_log_component(comp) == comp \in LOG_COMPONENTS

is_hidden_app_component(comp) ==
    /\ Len(comp) > 0
    /\ comp[1] = Str_dot[1]
    /\ comp # Str_dot
    /\ comp # Str_dotdot

\* u8::is_ascii_hexdigit
is_ascii_hexdigit(b) == b \in (48..57) \cup (65..70) \cup (97..102)

\* Hyphens at offsets 8, 13, 18 and 23, hex digits everywhere else.
is_uuid_format(s) ==
    /\ \A i \in {8, 13, 18, 23} : s[i + 1] = 45
    /\ \A i \in 0..(Len(s) - 1) : i \in {8, 13, 18, 23} \/ is_ascii_hexdigit(s[i + 1])

\* hex_ratio > 0.85 is hex_count * 100 > 85 * len.
is_hashy(s) ==
    IF Len(s) = 36 /\ is_uuid_format(s) THEN TRUE
    ELSE IF ~(Len(s) \in 16..64) THEN FALSE
    ELSE IF \E i \in 1..Len(s) : s[i] \in {95, 45, 46} THEN FALSE
    ELSE Cardinality({i \in 1..Len(s) : is_ascii_hexdigit(s[i])}) * 100 > 85 * Len(s)

\* classify_noise: the pair (noise flags, path depth) of a path string.
classify_noise(path) ==
    LET comps == SplitNonEmpty(path, Str_slash[1], <<>>)
        depth == Len(comps)
        hidden == {i \in 1..depth : is_hidden_app_component(comps[i])}
        first_hidden == CHOOSE i \in hidden : \A j \in hidden : i <= j
        in_hidden_app_dir == hidden # {}
        depth_after_hidden == IF hidden = {} THEN 0 ELSE depth - first_hidden
        has_build == \E i \in 1..depth : is_noisy_component(comps[i])
        has_cache == \E i \in 1..depth : is_cache_component(comps[i])
        has_log == \E i \in 1..depth : is_log_component(comps[i])
        has_hash == \E i \in 1..depth : is_hashy(comps[i])
    IN [flags |-> (IF is_system_path(path) THEN SYSTEM_DIR ELSE 0)
                  + (IF has_build THEN BUILD_DIR ELSE 0)
                  + (IF has_cache THEN CACHE_DIR ELSE 0)
                  + (IF has_hash THEN HASHY_SEG ELSE 0)
                  + (IF has_log THEN LOG_DIR ELSE 0)
                  + (IF in_hidden_app_dir /\ depth_after_hidden >= 2 THEN APP_DATA_DIR ELSE 0)
                  + (IF depth > VERY_DEEP_THRESHOLD THEN VERY_DEEP ELSE 0),
        depth |-> Min(depth, 255)]

default_search_exclude == HIDDEN + EXCLUDED_GLOB + EXCLUDED_USER + IN_TRASH + SPECIAL

\* !self.intersects(Self::default_search_exclude())
is_default_visible(flags) == BitAnd(flags, default_search_exclude) = 0

compute_file_flags(input, excluded_glob, excluded_user) ==
    (IF input.is_dir THEN IS_DIR ELSE 0)
    + (IF input.is_symlink THEN IS_SYMLINK ELSE 0)
    + (IF input.is_special THEN SPECIAL ELSE 0)
    + (IF input.hidden_os THEN HIDDEN ELSE 0)
    + (IF input.in_trash THEN IN_TRASH ELSE 0)
    + (IF excluded_glob THEN EXCLUDED_GLOB ELSE 0)
    + (IF excluded_user THEN EXCLUDED_USER ELSE 0)
(***************************************************************************)
(* Index builder: crates/engine/src/index/builder.rs                       *)
(* The builder is a record of its fields; every method maps a builder to   *)
(* the builder it leaves behind.  Vec indices are 0-based in the source:   *)
(* v[i] of the source is v[i + 1] here, ids are kept 0-based.              *)
(***************************************************************************)
narrow_time(t) == IF t > U32_MAX THEN U32_MAX ELSE t

intern_string(buf, s) == [buf |-> buf \o s, offset |-> Len(buf), len |-> Len(s)]

\* IndexBuilder::new
NewBuilder(root) ==
    LET rs == intern_string(<<>>, PathBytes(root))
    IN [root |-> root,
        names_blob |-> rs.buf,
        dirs |-> <<>>,
        dir_map |-> EmptyMap,
        files |-> <<>>,
        ext_postings |-> <<(<<>>)>>,
        ext_table |-> <<>>,
        ext_map |-> EmptyMap,
        file_trigrams |-> EmptyMap,
        dir_trigrams |-> EmptyMap,
        root_path_offset |-> rs.offset,
        root_path_len |-> rs.len]

\* IndexBuilder::intern_ext: the builder afterwards and the ExtId returned.
intern_ext(b, ext) ==
    IF ~ext.some THEN [b |-> b, id |-> 0]
    ELSE IF ext.val \in DOMAIN b.ext_map THEN [b |-> b, id |-> b.ext_map[ext.val]]
    ELSE LET id == Len(b.ext_table)
         IN [b |-> [b EXCEPT !.ext_table = Append(@, ext.val),
                             !.ext_postings = Append(@, <<>>),
                             !.ext_map = MapPut(@, ext.val, id)],
             id |-> id]

\* IndexBuilder::get_or_insert_dir: the builder afterwards and the DirId.
RECURSIVE get_or_insert_dir(_, _)
\* get_or_insert_dir pushing the directory before it ensures the parent, so
\* that a new parent gets the larger index.
DirPushedBeforeParent(b, rel_dir) ==
    IF PathIsEmpty(rel_dir) THEN [b |-> b, id |-> U32_MAX]
    ELSE IF rel_dir \in DOMAIN b.dir_map THEN [b |-> b, id |-> b.dir_map[rel_dir]]
    ELSE LET par == PathParent(rel_dir)
             fname == PathFileName(rel_dir)
             name == IF fname.some THEN fname.val ELSE <<>>
             s == intern_string(b.names_blob, name)
             id == Len(b.dirs)
             pushed == [b EXCEPT !.names_blob = s.buf,
                                 !.dirs = Append(@, [name_offset |-> s.offset,
                                                     name_len |-> s.len,
                                                     parent |-> U32_MAX,
                                                     flags_bits |-> 0,
                                                     reserved |-> 0]),
                                 !.dir_map = MapPut(@, rel_dir, id)]
             up == IF par.some /\ ~PathIsEmpty(par.val)
                   THEN get_or_insert_dir(pushed, par.val)
                   ELSE [b |-> pushed, id |-> U32_MAX]
         IN [b |-> [up.b EXCEPT !.dirs[id + 1].parent = up.id], id |-> id]

get_or_insert_dir(b, rel_dir) ==
    IF PathIsEmpty(rel_dir) THEN [b |-> b, id |-> U32_MAX]
    ELSE IF rel_dir \in DOMAIN b.dir_map THEN [b |-> b, id |-> b.dir_map[rel_dir]]
    ELSE LET par == PathParent(rel_dir)
             up == IF par.some /\ ~PathIsEmpty(par.val)
                   THEN get_or_insert_dir(b, par.val)
                   ELSE [b |-> b, id |-> U32_MAX]
             fname == PathFileName(rel_dir)
             name == IF fname.some THEN fname.val ELSE <<>>
             s == intern_string(up.b.names_blob, name)
             id == Len(up.b.dirs)
         IN [b |-> [up.b EXCEPT !.names_blob = s.buf,
                                !.dirs = Append(@, [name_offset |-> s.offset,
                                                    name_len |-> s.len,
                                                    parent |-> up.id,
                                                    flags_bits |-> 0,
                                                    reserved |-> 0]),
                                !.dir_map = MapPut(@, rel_dir, id)],
             id |-> id]

\* for tri in trigrams { map.entry(tri).or_default().push(id) }
RECURSIVE PushTrigrams(_, _, _)
PushTrigrams(map, trigrams, id) ==
    IF trigrams = <<>> THEN map
    ELSE PushTrigrams(MapPush(map, trigrams[1], id), Tail(trigrams), id)

\* IndexBuilder::add_trigrams
add_trigrams(b, file_id, rec, rel, dir_id, flags) ==
    IF rec.is_dir
    THEN [b EXCEPT !.dir_trigrams = PushTrigrams(@, path_trigrams(rel), dir_id)]
    ELSE IF ~is_default_visible(flags) THEN b
    ELSE [b EXCEPT !.file_trigrams = PushTrigrams(@, path_trigrams(rel), file_id)]

\* The root-relative path add_record indexes: the full path when it does not
\* lie under the root.
RelativePath(root, full_path) ==
    LET sp == strip_prefix(full_path, root)
    IN IF sp.ok THEN sp.path ELSE full_path

\* IndexBuilder::add_record
add_record(b, record) ==
    LET ns == intern_string(b.names_blob, record.name)
        b1 == [b EXCEPT !.names_blob = ns.buf]
        file_id == Len(b.files)
        rel == RelativePath(b.root, record.full_path)
        par == PathParent(rel)
        rel_dir == IF par.some THEN par.val ELSE EmptyPath
        ie == intern_ext(b1, record.ext)
        gd == get_or_insert_dir(ie.b, rel_dir)
        b2 == [gd.b EXCEPT !.ext_postings[ie.id + 1] = Append(@, file_id)]
        noise == classify_noise(PathBytes(record.full_path))
        file_flags == compute_file_flags(record, record.ignored_glob, record.user_excludes)
        b3 == [b2 EXCEPT !.files = Append(@, [size |-> record.size,
                                              mtime_secs |-> narrow_time(record.mtime_secs),
                                              ctime_secs |-> narrow_time(record.ctime_secs),
                                              atime_secs |-> narrow_time(record.atime_secs),
                                              dir_id |-> gd.id,
                                              name_offset |-> ns.offset,
                                              name_len |-> ns.len,
                                              ext_id |-> ie.id,
                                              flag_bits |-> file_flags,
                                              noise_bits |-> noise.flags,
                                              path_depth |-> noise.depth,
                                              reserved |-> 0])]
    IN add_trigrams(b3, file_id, record, rel, gd.id, file_flags)

\* pack_trigram_map: keys in ascending trigram order, each list sorted in
\* place, postings concatenated.  The entries tris are packed by halves;
\* base is postings.len() when the first of them is reached.
RECURSIVE PackTrigramEntries(_, _, _)
PackTrigramEntries(map, tris, base) ==
    IF tris = <<>> THEN [keys |-> <<>>, postings |-> <<>>]
    ELSE IF Len(tris) = 1
         THEN LET v == sort_unstable(map[tris[1]])
              IN [keys |-> <<[trigram |-> tris[1],
                              postings_offset |-> base,
                              postings_len |-> Len(v),
                              reserved |-> 0]>>,
                  postings |-> v]
    ELSE LET half == Len(tris) \div 2
             left == PackTrigramEntries(map, SubSeq(tris, 1, half), base)
             right == PackTrigramEntries(map, SubSeq(tris, half + 1, Len(tris)),
                                         base + Len(left.postings))
         IN [keys |-> left.keys \o right.keys, postings |-> left.postings \o right.postings]

\* pack_trigram_map without the sort of the entries by trigram: the keys are
\* laid out in descending trigram order, one of the orders the HashMap may
\* iterate in.
PackTrigramMapDescending(map) == PackTrigramEntries(map, Reverse(SetToSeq(DOMAIN map)), 0)

pack_trigram_map(map) == PackTrigramEntries(map, SetToSeq(DOMAIN map), 0)

\* pack_ext_postings: one key per list, in ExtId order.
RECURSIVE PackExtEntries(_, _, _)
PackExtEntries(ext_postings, ext_id, acc) ==
    IF ext_id >= Len(ext_postings) THEN acc
    ELSE LET v == ext_postings[ext_id + 1]
         IN PackExtEntries(ext_postings, ext_id + 1,
                [keys |-> Append(acc.keys, [ext_id |-> ext_id,
                                            pad |-> 0,
                                            postings_offset |-> Len(acc.postings),
                                            postings_len |-> Len(v),
                                            reserved |-> 0]),
                 postings |-> acc.postings \o v])

pack_ext_postings(ext_postings) ==
    PackExtEntries(ext_postings, 0, [keys |-> <<>>, postings |-> <<>>])

\* IndexBuilder::finish
finish(b) ==
    LET ft == pack_trigram_map(b.file_trigrams)
        dt == pack_trigram_map(b.dir_trigrams)
        ex == pack_ext_postings(b.ext_postings)
    IN [root |-> b.root,
        names_blob |-> b.names_blob,
        root_path_offset |-> b.root_path_offset,
        root_path_len |-> b.root_path_len,
        dirs |-> b.dirs,
        files |-> b.files,
        ext_table |-> b.ext_table,
        ext_index_keys |-> ex.keys,
        ext_index_postings |-> ex.postings,
        file_trigram_keys |-> ft.keys,
        file_trigram_postings |-> ft.postings,
        dir_trigram_keys |-> dt.keys,
        dir_trigram_postings |-> dt.postings]

\* The posting list of a key of a staged index.
PostingList(postings, key) ==
    SubSeq(postings, key.postings_offset + 1, key.postings_offset + key.postings_len)
(***************************************************************************)
(* On-disk layout and writer: crates/engine/src/index/mod.rs (the Pod      *)
(* structs) and crates/engine/src/index/persist.rs.  A file is the         *)
(* sequence of its bytes; integers are stored little-endian.               *)
(***************************************************************************)
SECTION_ALIGNMENT == 8
INDEX_MAGIC == 1163545666          \* 0x455A4C42
INDEX_VERSION == 1

\* mem::size_of of the repr(C) structs.
SIZE_INDEX_HEADER == 312
SIZE_SECTION_DESC == 24
SIZE_INDEX_META == 24
SIZE_FILE_META == 40
SIZE_DIR_META == 16
SIZE_EXT_KEY == 16
SIZE_TRIGRAM_KEY == 16

\* The w little-endian bytes of n.
RECURSIVE LE(_, _)
LE(n, w) == IF w = 0 THEN <<>> ELSE <<n % 256>> \o LE(n \div 256, w - 1)

\* Concatenation of a sequence of byte strings.
RECURSIVE Flatten(_)
Flatten(chunks) ==
    IF Len(chunks) = 0 THEN <<>>
    ELSE IF Len(chunks) = 1 THEN chunks[1]
    ELSE LET half == Len(chunks) \div 2
         IN Flatten(SubSeq(chunks, 1, half)) \o Flatten(SubSeq(chunks, half + 1, Len(chunks)))

\* bytes_of / cast_slice of each struct, field by field in declaration order.
FileMetaBytes(m) ==
    LE(m.size, 8) \o LE(m.mtime_secs, 4) \o LE(m.ctime_secs, 4) \o LE(m.atime_secs, 4)
    \o LE(m.dir_id, 4) \o LE(m.name_offset, 4) \o LE(m.name_len, 4)
    \o LE(m.ext_id, 2) \o LE(m.flag_bits, 2) \o LE(m.noise_bits, 1) \o LE(m.path_depth, 1)
    \o LE(m.reserved, 2)

DirMetaBytes(d) ==
    LE(d.name_offset, 4) \o LE(d.name_len, 4) \o LE(d.parent, 4)
    \o LE(d.flags_bits, 2) \o LE(d.reserved, 2)

ExtKeyBytes(k) ==
    LE(k.ext_id, 2) \o LE(k.pad, 2) \o LE(k.postings_offset, 4)
    \o LE(k.postings_len, 4) \o LE(k.reserved, 4)

TrigramKeyBytes(k) ==
    LE(k.trigram, 4) \o LE(k.postings_offset, 4) \o LE(k.postings_len, 4) \o LE(k.reserved, 4)

IndexMetaBytes(m) ==
    LE(m.created_secs, 8) \o LE(m.root_path_offset, 4) \o LE(m.root_path_len, 4)
    \o LE(m.build_flags, 4) \o LE(m.reserved, 4)

SectionDescBytes(s) == LE(s.offset, 8) \o LE(s.len, 8) \o LE(s.flags, 4) \o LE(s.reserved, 4)

\* The section names in header order.
SectionNames ==
    <<"metadata", "ext_table", "dirs", "files_meta", "names_blob",
      "ext_index_keys", "ext_index_postings", "trigram_keys", "trigram_postings",
      "dir_trigram_keys", "dir_trigram_postings">>

IndexHeaderBytes(h) ==
    LE(h.magic, 4) \o LE(h.version, 4) \o LE(h.header_size, 4) \o LE(h.header_crc32, 4)
    \o LE(h.flags_bits, 4) \o LE(h.file_count, 4) \o LE(h.dir_count, 4) \o LE(h.ext_count, 4)
    \o Rep(0, 16)
    \o Flatten([i \in 1..Len(SectionNames) |-> SectionDescBytes(h.sections[SectionNames[i]])])

SectionDescNew(offset, len) == [offset |-> offset, len |-> len, flags |-> 0, reserved |-> 0]

align_up(value, alignment) == ((value + alignment - 1) \div alignment) * alignment

encode_ext_table(exts) == Flatten([i \in 1..Len(exts) |-> exts[i] \o <<0>>])

encode_dirs(dirs) == Flatten([i \in 1..Len(dirs) |-> DirMetaBytes(dirs[i])])

encode_file_metas(files) == Flatten([i \in 1..Len(files) |-> FileMetaBytes(files[i])])

encode_u32_slice(ids) == Flatten([i \in 1..Len(ids) |-> LE(ids[i], 4)])

encode_ext_keys(keys) == Flatten([i \in 1..Len(keys) |-> ExtKeyBytes(keys[i])])

encode_trigram_keys(keys) == Flatten([i \in 1..Len(keys) |-> TrigramKeyBytes(keys[i])])

\* The digest crc32fast::Hasher computes over the header.  The digest is
\* written into the header and read back by no code of the engine; it is
\* modelled by a position-weighted byte sum.
RECURSIVE WeightedSum(_, _, _)
WeightedSum(bytes, lo, hi) ==
    IF lo > hi THEN 0
    ELSE IF lo = hi THEN (lo * bytes[lo]) % 65521
    ELSE LET mid == (lo + hi) \div 2
         IN (WeightedSum(bytes, lo, mid) + WeightedSum(bytes, mid + 1, hi)) % 65521

crc32(bytes) == WeightedSum(bytes, 1, Len(bytes))

\* Whether a section is aligned up to SECTION_ALIGNMENT before it is placed.
SectionAligned ==
    [metadata |-> TRUE, ext_table |-> FALSE, dirs |-> TRUE, files_meta |-> TRUE,
     names_blob |-> FALSE, ext_index_keys |-> TRUE, ext_index_postings |-> TRUE,
     trigram_keys |-> TRUE, trigram_postings |-> TRUE, dir_trigram_keys |-> TRUE,
     dir_trigram_postings |-> TRUE]

\* The encoded bytes of every section of a staged index.
SectionBytes(index, created_secs) ==
    [metadata |-> IndexMetaBytes([created_secs |-> created_secs,
                                  root_path_offset |-> index.root_path_offset,
                                  root_path_len |-> index.root_path_len,
                                  build_flags |-> 0,
                                  reserved |-> 0]),
     ext_table |-> encode_ext_table(index.ext_table),
     dirs |-> encode_dirs(index.dirs),
     files_meta |-> encode_file_metas(index.files),
     names_blob |-> index.names_blob,
     ext_index_keys |-> encode_ext_keys(index.ext_index_keys),
     ext_index_postings |-> encode_u32_slice(index.ext_index_postings),
     trigram_keys |-> encode_trigram_keys(index.file_trigram_keys),
     trigram_postings |-> encode_u32_slice(index.file_trigram_postings),
     dir_trigram_keys |-> encode_trigram_keys(index.dir_trigram_keys),
     dir_trigram_postings |-> encode_u32_slice(index.dir_trigram_postings)]

\* The offsets computed without align_up: every section right after the
\* one before it.
RECURSIVE OffsetsNeverAligned(_, _, _, _)
OffsetsNeverAligned(bytes, i, offset, acc) ==
    IF i > Len(SectionNames) THEN acc
    ELSE OffsetsNeverAligned(bytes, i + 1, offset + Len(bytes[SectionNames[i]]),
                             [acc EXCEPT ![SectionNames[i]] =
                                 SectionDescNew(offset, Len(bytes[SectionNames[i]]))])

\* "Computes section offset": the descriptors of sections i.. given the running
\* offset, in header order.
RECURSIVE ComputeSections(_, _, _, _)
ComputeSections(bytes, i, offset, acc) ==
    IF i > Len(SectionNames) THEN acc
    ELSE LET name == SectionNames[i]
             start == IF SectionAligned[name] THEN align_up(offset, SECTION_ALIGNMENT)
                      ELSE offset
             desc == SectionDescNew(start, Len(bytes[name]))
         IN ComputeSections(bytes, i + 1, start + desc.len,
                            [acc EXCEPT ![name] = desc])

\* The header write_index_to builds, CRC included.
BuildHeader(index, index_flags, bytes) ==
    LET none == SectionDescNew(0, 0)
        sections == ComputeSections(bytes, 1, SIZE_INDEX_HEADER,
                                    [n \in Range(SectionNames) |-> none])
        header == [magic |-> INDEX_MAGIC,
                   version |-> INDEX_VERSION,
                   header_size |-> SIZE_INDEX_HEADER,
                   header_crc32 |-> 0,
                   flags_bits |-> index_flags,
                   file_count |-> Len(index.files),
                   dir_count |-> Len(index.dirs),
                   ext_count |-> Len(index.ext_table),
                   sections |-> sections]
    IN [header EXCEPT !.header_crc32 = crc32(IndexHeaderBytes(header))]

\* The write_all calls of write_index_to after the header, in order: the
\* padding up to each section's offset (when there is any) and the section.
\* pos is the number of bytes written so far.
RECURSIVE SectionWrites(_, _, _, _)
SectionWrites(header, bytes, i, pos) ==
    IF i > Len(SectionNames) THEN <<>>
    ELSE LET name == SectionNames[i]
             desc == header.sections[name]
             padding == IF SectionAligned[name] THEN desc.offset - pos ELSE 0
             start == IF SectionAligned[name] THEN desc.offset ELSE pos
         IN (IF padding > 0 THEN <<Rep(0, padding)>> ELSE <<>>)
            \o <<bytes[name]>>
            \o SectionWrites(header, bytes, i + 1, start + Len(bytes[name]))

\* write_index_to: the sequence of byte strings handed to writer.write_all.
write_index_to(index, index_flags, created_secs) ==
    LET bytes == SectionBytes(index, created_secs)
        header == BuildHeader(index, index_flags, bytes)
    IN <<IndexHeaderBytes(header)>> \o SectionWrites(header, bytes, 1, SIZE_INDEX_HEADER)

\* The file a completed write_index_to leaves behind.
IndexImage(index, index_flags, created_secs) ==
    Flatten(write_index_to(index, index_flags, created_secs))
(***************************************************************************)
(* Index reader: crates/engine/src/index/mod.rs and reader.rs.             *)
(* The mapping is the byte sequence of the file; byte offset o of the      *)
(* source is element o + 1 here.                                           *)
(***************************************************************************)
NoneSeq == [some |-> FALSE, val |-> <<>>]

\* Little-endian reads.  A value that does not fit the model's 31-bit word
\* reads as U32_MAX.
RdU8(m, off) == m[off + 1]

RdU16(m, off) == m[off + 1] + 256 * m[off + 2]

RdU32(m, off) ==
    IF m[off + 4] >= 128 THEN U32_MAX
    ELSE m[off + 1] + 256 * m[off + 2] + 65536 * m[off + 3] + 16777216 * m[off + 4]

RdU64(m, off) ==
    IF \E k \in 5..8 : m[off + k] # 0 THEN U32_MAX ELSE RdU32(m, off)

RdSectionDesc(m, off) ==
    [offset |-> RdU64(m, off), len |-> RdU64(m, off + 8),
     flags |-> RdU32(m, off + 16), reserved |-> RdU32(m, off + 20)]

\* *from_bytes(&mmap[..header_size])
RdIndexHeader(m) ==
    [magic |-> RdU32(m, 0),
     version |-> RdU32(m, 4),
     header_size |-> RdU32(m, 8),
     header_crc32 |-> RdU32(m, 12),
     flags_bits |-> RdU32(m, 16),
     file_count |-> RdU32(m, 20),
     dir_count |-> RdU32(m, 24),
     ext_count |-> RdU32(m, 28),
     sections |-> [n \in Range(SectionNames) |->
                      LET i == CHOOSE k \in 1..Len(SectionNames) : SectionNames[k] = n
                      IN RdSectionDesc(m, 48 + (i - 1) * SIZE_SECTION_DESC)]]

RdFileMeta(m, off) ==
    [size |-> RdU64(m, off),
     mtime_secs |-> RdU32(m, off + 8),
     ctime_secs |-> RdU32(m, off + 12),
     atime_secs |-> RdU32(m, off + 16),
     dir_id |-> RdU32(m, off + 20),
     name_offset |-> RdU32(m, off + 24),
     name_len |-> RdU32(m, off + 28),
     ext_id |-> RdU16(m, off + 32),
     flag_bits |-> RdU16(m, off + 34),
     noise_bits |-> RdU8(m, off + 36),
     path_depth |-> RdU8(m, off + 37),
     reserved |-> RdU16(m, off + 38)]

RdDirMeta(m, off) ==
    [name_offset |-> RdU32(m, off),
     name_len |-> RdU32(m, off + 4),
     parent |-> RdU32(m, off + 8),
     flags_bits |-> RdU16(m, off + 12),
     reserved |-> RdU16(m, off + 14)]

RdExtKey(m, off) ==
    [ext_id |-> RdU16(m, off),
     pad |-> RdU16(m, off + 2),
     postings_offset |-> RdU32(m, off + 4),
     postings_len |-> RdU32(m, off + 8),
     reserved |-> RdU32(m, off + 12)]

RdTrigramKey(m, off) ==
    [trigram |-> RdU32(m, off),
     postings_offset |-> RdU32(m, off + 4),
     postings_len |-> RdU32(m, off + 8),
     reserved |-> RdU32(m, off + 12)]

RdIndexMeta(m, off) ==
    [created_secs |-> RdU64(m, off),
     root_path_offset |-> RdU32(m, off + 8),
     root_path_len |-> RdU32(m, off + 12),
     build_flags |-> RdU32(m, off + 16),
     reserved |-> RdU32(m, off + 20)]

\* slice.split(|b| *b == 0): every part, the empty ones included.
RECURSIVE SplitAll(_, _, _)
SplitAll(s, sep, cur) ==
    IF s = <<>> THEN <<cur>>
    ELSE IF s[1] = sep THEN <<cur>> \o SplitAll(Tail(s), sep, <<>>)
    ELSE SplitAll(Tail(s), sep, Append(cur, s[1]))

decode_ext_table(mmap, header) ==
    LET ext_off == header.sections["ext_table"].offset
        ext_end == ext_off + header.sections["ext_table"].len
    IN SplitAll(SubSeq(mmap, ext_off + 1, ext_end), 0, <<>>)

\* verify_index_header: TRUE when the header is accepted.
verify_index_header(mmap, header) ==
    /\ Len(mmap) >= SIZE_INDEX_HEADER
    /\ header.magic = INDEX_MAGIC
    /\ header.version = INDEX_VERSION
    /\ \A i \in 1..Len(SectionNames) :
          LET section == header.sections[SectionNames[i]]
          IN /\ section.offset <= Len(mmap)
             /\ section.len <= Len(mmap) - section.offset

\* Index::from_mmap
from_mmap(mmap, header, ext_table) ==
    [mmap |-> mmap,
     header |-> header,
     ext_table |-> ext_table,
     file_metas_offset |-> header.sections["files_meta"].offset,
     file_metas_len_bytes |-> header.sections["files_meta"].len,
     dirs_offset |-> header.sections["dirs"].offset,
     dirs_len_bytes |-> header.sections["dirs"].len,
     names_blob_offset |-> header.sections["names_blob"].offset,
     names_blob_len |-> header.sections["names_blob"].len,
     ext_index_keys_offset |-> header.sections["ext_index_keys"].offset,
     ext_index_keys_len |-> header.sections["ext_index_keys"].len,
     ext_index_postings_offset |-> header.sections["ext_index_postings"].offset,
     ext_index_postings_len |-> header.sections["ext_index_postings"].len,
     trigram_keys_offset |-> header.sections["trigram_keys"].offset,
     trigram_keys_len |-> header.sections["trigram_keys"].len,
     trigram_postings_offset |-> header.sections["trigram_postings"].offset,
     trigram_postings_len |-> header.sections["trigram_postings"].len,
     dir_trigram_keys_offset |-> header.sections["dir_trigram_keys"].offset,
     dir_trigram_keys_len |-> header.sections["dir_trigram_keys"].len,
     dir_trigram_postings_offset |-> header.sections["dir_trigram_postings"].offset,
     dir_trigram_postings_len |-> header.sections["dir_trigram_postings"].len]

\* Index::open on the bytes of the file at the path (file.some is FALSE
\* when there is no file): Ok(reader) or an error.
NoIndex == [ok |-> FALSE, index |-> <<>>]

IndexOpen(file) ==
    IF ~file.some THEN NoIndex
    ELSE IF Len(file.val) < SIZE_INDEX_HEADER THEN NoIndex
    ELSE LET header == RdIndexHeader(file.val)
         IN IF ~verify_index_header(file.val, header) THEN NoIndex
            ELSE [ok |-> TRUE,
                  index |-> from_mmap(file.val, header, decode_ext_table(file.val, header))]

\* The typed views of the mapping: element counts and elements.
file_metas_len(index) == index.file_metas_len_bytes \div SIZE_FILE_META

file_metas_at(index, i) == RdFileMeta(index.mmap, index.file_metas_offset + i * SIZE_FILE_META)

dirs_len(index) == index.dirs_len_bytes \div SIZE_DIR_META

dirs_at(index, i) == RdDirMeta(index.mmap, index.dirs_offset + i * SIZE_DIR_META)

names_blob(index) ==
    SubSeq(index.mmap, index.names_blob_offset + 1,
           index.names_blob_offset + index.names_blob_len)

trigram_keys_len(index) == index.trigram_keys_len \div SIZE_TRIGRAM_KEY

trigram_keys_at(index, i) ==
    RdTrigramKey(index.mmap, index.trigram_keys_offset + i * SIZE_TRIGRAM_KEY)

trigram_postings_raw_len(index) == index.trigram_postings_len \div 4

dir_trigram_keys_len(index) == index.dir_trigram_keys_len \div SIZE_TRIGRAM_KEY

dir_trigram_keys_at(index, i) ==
    RdTrigramKey(index.mmap, index.dir_trigram_keys_offset + i * SIZE_TRIGRAM_KEY)

dir_trigram_postings_raw_len(index) == index.dir_trigram_postings_len \div 4

ext_keys_len(index) == index.ext_index_keys_len \div SIZE_EXT_KEY

ext_keys_at(index, i) == RdExtKey(index.mmap, index.ext_index_keys_offset + i * SIZE_EXT_KEY)

ext_postings_raw_len(index) == index.ext_index_postings_len \div 4

\* &postings[start..end] of a u32 section starting at byte offset base.
U32Slice(mmap, base, start, end) == [k \in 1..(end - start) |-> RdU32(mmap, base + 4 * (start + k - 1))]

\* blob_str: "" when the range does not fit the blob.
blob_str(blob, off, len) ==
    IF off + len <= Len(blob) THEN SubSeq(blob, off + 1, off + len) ELSE <<>>

get_name(index, offset, len) == blob_str(names_blob(index), offset, len)

\* keys.binary_search_by_key(&target, |k| k.trigram) over keys lo..hi-1 of the
\* file ("file") or directory ("dir") trigram keys: the index of the key
\* found, or -1.
KeyAt(index, which, i) ==
    IF which = "file" THEN trigram_keys_at(index, i) ELSE dir_trigram_keys_at(index, i)

RECURSIVE SearchKeys(_, _, _, _, _)
SearchKeys(index, which, target, lo, hi) ==
    IF lo >= hi THEN -1
    ELSE LET mid == lo + (hi - lo) \div 2
             t == KeyAt(index, which, mid).trigram
         IN IF t = target THEN mid
            ELSE IF t < target THEN SearchKeys(index, which, target, mid + 1, hi)
            ELSE SearchKeys(index, which, target, lo, mid)

trigram_postings_slice(index, key) ==
    LET start == key.postings_offset
        end == start + key.postings_len
    IN IF end > trigram_postings_raw_len(index) THEN NoneSeq
       ELSE Some(U32Slice(index.mmap, index.trigram_postings_offset, start, end))

\* Index::query_trigram_on_disk
query_trigram_on_disk(index, tri) ==
    LET idx == SearchKeys(index, "file", tri, 0, trigram_keys_len(index))
    IN IF idx < 0 THEN NoneSeq ELSE trigram_postings_slice(index, trigram_keys_at(index, idx))

\* Index::query_dir_trigram_on_disk
query_dir_trigram_on_disk(index, tri) ==
    LET idx == SearchKeys(index, "dir", tri, 0, dir_trigram_keys_len(index))
    IN IF idx < 0 THEN NoneSeq
       ELSE LET key == dir_trigram_keys_at(index, idx)
                start == key.postings_offset
                end == start + key.postings_len
            IN IF end > dir_trigram_postings_raw_len(index) THEN NoneSeq
               ELSE Some(U32Slice(index.mmap, index.dir_trigram_postings_offset, start, end))

\* Index::ext_postings
ext_postings(index, ext_id) ==
    IF ext_id >= ext_keys_len(index) THEN <<>>
    ELSE LET key == ext_keys_at(index, ext_id)
             start == key.postings_offset
             end == start + key.postings_len
         IN IF end > ext_postings_raw_len(index) THEN <<>>
            ELSE U32Slice(index.mmap, index.ext_index_postings_offset, start, end)
(***************************************************************************)
(* impl IndexReader for Index: crates/engine/src/index/reader.rs, and the  *)
(* path reconstruction of crates/engine/src/index/mod.rs.                  *)
(***************************************************************************)
get_file_count(index) == index.header.file_count

dir_count(index) == index.header.dir_count

get_dir_name(index, id) ==
    IF id < dirs_len(index)
    THEN LET dir == dirs_at(index, id) IN get_name(index, dir.name_offset, dir.name_len)
    ELSE <<>>

get_file_name(index, id) ==
    IF id < file_metas_len(index)
    THEN LET meta == file_metas_at(index, id) IN get_name(index, meta.name_offset, meta.name_len)
    ELSE <<>>

get_file_dir_id(index, id) ==
    IF id < file_metas_len(index) THEN file_metas_at(index, id).dir_id ELSE U32_MAX

get_file_ext(index, id) ==
    IF id < file_metas_len(index)
    THEN LET meta == file_metas_at(index, id)
         IN IF meta.ext_id = 0 THEN <<>>
            ELSE IF meta.ext_id < Len(index.ext_table) THEN index.ext_table[meta.ext_id + 1]
            ELSE <<>>
    ELSE <<>>

get_file_size(index, id) ==
    IF id < file_metas_len(index) THEN file_metas_at(index, id).size ELSE 0

get_file_modified_epoch(index, id) ==
    IF id < file_metas_len(index) THEN file_metas_at(index, id).mtime_secs ELSE 0

get_file_created_epoch(index, id) ==
    IF id < file_metas_len(index) THEN file_metas_at(index, id).ctime_secs ELSE 0

get_file_noise_bits(index, id) ==
    IF id < file_metas_len(index) THEN file_metas_at(index, id).noise_bits ELSE 0

get_file_path_depth(index, id) ==
    IF id < file_metas_len(index) THEN file_metas_at(index, id).path_depth ELSE 0

query_trigram(index, tri) == query_trigram_on_disk(index, tri)

query_dir_trigram(index, tri) == query_dir_trigram_on_disk(index, tri)

trigram_postings_len(index, tri) ==
    LET p == query_trigram(index, tri) IN IF p.some THEN Len(p.val) ELSE 0

\* Index::read_index_meta
read_index_meta(index) ==
    LET desc == index.header.sections["metadata"]
    IN IF desc.len < SIZE_INDEX_META THEN [some |-> FALSE, val |-> <<>>]
       ELSE Some(RdIndexMeta(index.mmap, desc.offset))

\* Index::root_path
root_path(index) ==
    LET meta == read_index_meta(index)
    IN IF ~meta.some THEN NoneSeq
       ELSE Some(get_name(index, meta.val.root_path_offset, meta.val.root_path_len))

\* The "dir chain" loop of reconstruct_relative_path from directory d on:
\* the names pushed, leaf first.  Indexing dirs out of range panics; a parent
\* chain that does not end within dirs_len steps never ends.
RECURSIVE DirChain(_, _, _, _)
DirChain(index, d, components, steps) ==
    IF d = U32_MAX THEN [panic |-> FALSE, val |-> components]
    ELSE IF d >= dirs_len(index) \/ steps > dirs_len(index)
         THEN [panic |-> TRUE, val |-> components]
    ELSE LET dir == dirs_at(index, d)
             name == get_name(index, dir.name_offset, dir.name_len)
             pushed == IF name # <<>> THEN Append(components, name) ELSE components
         IN IF dir.parent = U32_MAX THEN [panic |-> FALSE, val |-> pushed]
            ELSE DirChain(index, dir.parent, pushed, steps + 1)

\* reconstruct_relative_path without components.reverse(): the names joined
\* leaf first.
ReconstructRelativeLeafFirst(index, file_id) ==
    IF file_id >= file_metas_len(index) THEN [panic |-> TRUE, val |-> <<>>]
    ELSE With(file_metas_at(index, file_id), LAMBDA meta :
            With(DirChain(index, meta.dir_id,
                          <<get_name(index, meta.name_offset, meta.name_len)>>, 0),
                 LAMBDA chain :
                    [panic |-> chain.panic, val |-> JoinWith(chain.val, Str_slash)]))

\* Index::reconstruct_relative_path: [panic, val]; metas[file_id] panics when
\* file_id is out of range.
reconstruct_relative_path(index, file_id) ==
    IF file_id >= file_metas_len(index) THEN [panic |-> TRUE, val |-> <<>>]
    ELSE With(file_metas_at(index, file_id), LAMBDA meta :
            With(DirChain(index, meta.dir_id,
                          <<get_name(index, meta.name_offset, meta.name_len)>>, 0),
                 LAMBDA chain :
                    [panic |-> chain.panic, val |-> JoinWith(Reverse(chain.val), Str_slash)]))

\* Index::reconstruct_absolute_path: [panic, some, val]
reconstruct_absolute_path(index, file_id) ==
    With(root_path(index), LAMBDA root :
        IF ~root.some THEN [panic |-> FALSE, some |-> FALSE, val |-> <<>>]
        ELSE With(reconstruct_relative_path(index, file_id), LAMBDA rel :
                [panic |-> rel.panic,
                 some |-> TRUE,
                 val |-> root.val
                         \o (IF root.val # <<>> /\ Last(root.val) = Str_slash[1] THEN <<>>
                             ELSE Str_slash)
                         \o rel.val]))

\* IndexReader::reconstruct_full_path: [panic, val]
reconstruct_full_path(index, id) ==
    With(reconstruct_absolute_path(index, id), LAMBDA abs :
        IF abs.some THEN [panic |-> abs.panic, val |-> abs.val]
        ELSE [panic |-> FALSE, val |-> get_file_name(index, id)])

\* What the accessors of impl IndexReader return for one FileId.
FileView(index, id) ==
    [name |-> get_file_name(index, id),
     dir_id |-> get_file_dir_id(index, id),
     ext |-> get_file_ext(index, id),
     size |-> get_file_size(index, id),
     modified_epoch |-> get_file_modified_epoch(index, id),
     created_epoch |-> get_file_created_epoch(index, id),
     noise_bits |-> get_file_noise_bits(index, id),
     path_depth |-> get_file_path_depth(index, id),
     full_path |-> reconstruct_full_path(index, id)]
(***************************************************************************)
(* write_index_atomic: crates/engine/src/index/persist.rs.  The directory  *)
(* of the destination is a function from file names to an Option of the    *)
(* file's bytes.                                                           *)
(***************************************************************************)
\* The capacity of the BufWriter write_index_to wraps the file in, scaled to
\* the size of the images written here so that the buffer fills and drains
\* several times during one write.
BufCapacity == 64

\* The file name of the destination path.
DestName == "index.bin"

\* A temp file that is the destination itself: the image written in place.
WriteInPlaceName == "index.bin"

\* The name NamedTempFile::new_in picks in the destination's directory: a
\* fresh name, created exclusively.
TempFileName == ".tmpA1b2C3"

FileNames == {DestName, ".tmpA1b2C3"}

\* BufWriter::write_all(data) with buf buffered: the buffer afterwards and
\* the bytes this call hands to the file, in order.  Data shorter than the
\* spare capacity is buffered; otherwise the buffer is flushed first when
\* the data does not fit it, and data of at least the capacity goes to the
\* file directly.
BufWriteAll(buf, data) ==
    LET spare == BufCapacity - Len(buf)
    IN IF Len(data) < spare THEN [buf |-> buf \o data, out |-> <<>>]
       ELSE LET flushed == IF Len(data) > spare THEN buf ELSE <<>>
                kept == IF Len(data) > spare THEN <<>> ELSE buf
            IN IF Len(data) >= BufCapacity
               THEN [buf |-> kept, out |-> flushed \o data]
               ELSE [buf |-> kept \o data, out |-> flushed]

\* File::write_all appending bytes to a file of the directory.
FileAppend(fs, name, bytes) == [fs EXCEPT ![name] = Some(@.val \o bytes)]

\* Dropping the NamedTempFile on an error path: the temp file, which has
\* received the first n of the pending bytes, is unlinked; when the unlink
\* fails the error is ignored and the file stays.
DropTempFile(fs, name, pending, n, unlinked) ==
    IF unlinked THEN [fs EXCEPT ![name] = NoneSeq]
    ELSE FileAppend(fs, name, SubSeq(pending, 1, n))

\* NamedTempFile::persist: rename(2) of the temp file over the destination.
PersistRename(fs, tmp, dest) == [fs EXCEPT ![dest] = fs[tmp], ![tmp] = NoneSeq]
(***************************************************************************)
(* Daemon state: crates/daemon/src/state.rs.  An Index is named by the     *)
(* number it was created with; an Arc<Index> is that number together with  *)
(* the strong count kept for it.                                           *)
(***************************************************************************)
\* A handle taken without a new strong reference: a borrow of the Arc in
\* the lock.
ArcBorrow(strong, id) == strong

\* Arc::clone: one more strong reference.
ArcClone(strong, id) == [strong EXCEPT ![id] = @ + 1]

\* Dropping an Arc: one strong reference less; the Index, and with it its
\* mapping, is dropped with the last one.
ArcDropCount(strong, id) == [strong EXCEPT ![id] = @ - 1]

ArcDropMapped(strong, mapped, id) == IF strong[id] = 1 THEN mapped \ {id} ELSE mapped

\* What a read through a handle finds: the contents of the Index while its
\* mapping is live, anything once it is unmapped.
ReadThrough(mapped, id) == IF id \in mapped THEN {id} ELSE {id, -1}

\* The position of an Index in the order of installation (0 when it has not
\* been stored).
RECURSIVE PositionIn(_, _)
PositionIn(seq, id) ==
    IF seq = <<>> THEN 0
    ELSE IF Last(seq) = id THEN Len(seq)
    ELSE PositionIn(Front(seq), id)
(***************************************************************************)
(* Parallel walker: crates/fs/src/walker.rs                                *)
(***************************************************************************)
\* config::BATCH_SIZE, 64 in the source, kept small enough for a worker to
\* fill a batch within the directory trees walked here.
BATCH_SIZE == 2

should_recurse(f) ==
    f.is_dir /\ ~f.in_trash /\ ~f.ignored_glob /\ ~f.user_excludes /\ ~f.is_symlink
(***************************************************************************)
(* Query AST: crates/engine/src/dsl/ast.rs and dsl/predicates.rs.          *)
(* A value of an enum is a record whose kind names the variant.            *)
(***************************************************************************)
TextTerm(text, is_phrase, is_glob) ==
    [text |-> text, is_phrase |-> is_phrase, is_glob |-> is_glob]

\* QueryExpr
And(children) == [kind |-> "And", children |-> children]

Or(children) == [kind |-> "Or", children |-> children]

Not(inner) == [kind |-> "Not", inner |-> inner]

\* QueryExpr::Leaf(LeafExpr::Text(..)) and QueryExpr::Leaf(LeafExpr::Predicate(..))
TextLeaf(term) == [kind |-> "Text", term |-> term]

PredLeaf(pred) == [kind |-> "Pred", pred |-> pred]

Predicate(field, op, value) == [field |-> field, op |-> op, value |-> value]

\* Value
ValStr(s) == [kind |-> "Str", str |-> s]

SizeBytes(n) == [kind |-> "SizeBytes", bytes |-> n]

ValTime(expr) == [kind |-> "Time", expr |-> expr]

\* TimeExpr: Absolute carries the timestamp of the DateTime in seconds,
\* Relative a RelativeTime [unit, n], Macro the TimeMacro's name.
Absolute(secs) == [kind |-> "Absolute", secs |-> secs]

Relative(unit, n) == [kind |-> "Relative", rel |-> [unit |-> unit, n |-> n]]

Macro(mac) == [kind |-> "Macro", mac |-> mac]

\* Query
Query(expr) == [expr |-> expr]

\* Sorting a sequence of [key, item] pairs by key.  slice::sort_by_key and
\* sort_by_cached_key are stable; sort_unstable_by_key may leave equal keys
\* in any order: with stable = FALSE equal keys come out in reversed order.
RECURSIVE InsertKeyed(_, _, _)
InsertKeyed(sorted, e, stable) ==
    IF sorted = <<>> THEN <<e>>
    ELSE IF e.key < sorted[1].key \/ (~stable /\ e.key = sorted[1].key)
         THEN <<e>> \o sorted
    ELSE <<sorted[1]>> \o InsertKeyed(Tail(sorted), e, stable)

RECURSIVE SortKeyedFrom(_, _, _, _)
SortKeyedFrom(pairs, k, acc, stable) ==
    IF k > Len(pairs) THEN acc
    ELSE SortKeyedFrom(pairs, k + 1, InsertKeyed(acc, pairs[k], stable), stable)

SortKeyed(pairs, stable) == SortKeyedFrom(pairs, 1, <<>>, stable)

\* What the build and the standard library leave open: whether integer
\* overflow is checked (overflow_checks), which of several equal elements
\* slice::binary_search reports (pick, "first" or "last"), and whether an
\* unstable sort keeps equal keys in order (keep_ties).
Env(overflow_checks, pick, keep_ties) ==
    [overflow_checks |-> overflow_checks, pick |-> pick, keep_ties |-> keep_ties]
(***************************************************************************)
(* Cost planner: crates/engine/src/eval/planner.rs.                        *)
(* Cost wraps a u64; the model's u64 is as wide as its u32 (31 bits), so   *)
(* u64::MAX is the largest value of the model's word.  A function that may *)
(* panic returns [panic, val].                                             *)
(***************************************************************************)
U64_MAX == U32_MAX

Cost_ZERO == 0

Cost_VERY_BAD == U64_MAX \div 3

Cost_LINEAR_SCAN == U64_MAX \div 2

Returned(v) == [panic |-> FALSE, val |-> v]

Panicked == [panic |-> TRUE, val |-> 0]

\* The rest of a computation after a call that may panic: K at the value
\* returned, or the panic.
Bind(r, K(_)) == IF r.panic THEN Panicked ELSE K(r.val)

\* impl Add for Cost: u64::saturating_add
CostAdd(a, b) == IF a > U64_MAX - b THEN U64_MAX ELSE a + b

\* u64 subtraction and addition as the build without overflow checks
\* computes them: modulo the word.
wrapping_sub(a, b) == IF a >= b THEN a - b ELSE U64_MAX - (b - a) + 1

wrapping_add(a, b) == IF a > U64_MAX - b THEN a - (U64_MAX - b) - 1 ELSE a + b

\* The smallest element of a non-empty sequence of costs, or dflt.
RECURSIVE MinOr(_, _)
MinOr(costs, dflt) ==
    IF costs = <<>> THEN dflt
    ELSE IF Len(costs) = 1 THEN costs[1]
    ELSE Min(costs[1], MinOr(Tail(costs), dflt))

estimate_predicate_cost_simple(pred) ==
    CASE pred.field = "Ext" -> 10
      [] pred.field = "Size" -> 20
      [] pred.field = "Created" -> 25
      [] pred.field = "Modified" -> 25

\* estimate_text_cost_simple: 10 + (30 - capped) in u64.  30 - capped is
\* below zero for a term longer than 30 characters: the subtraction panics
\* when overflow is checked and wraps otherwise, and so does the addition.
estimate_text_cost_simple(term, overflow_checks) ==
    LET len == Len(term.text)
        capped == Min(len, 40)
    IN IF len < 3 THEN Returned(Cost_LINEAR_SCAN)
       ELSE IF 30 >= capped THEN Returned(10 + (30 - capped))
       ELSE IF overflow_checks THEN Panicked
       ELSE Returned(wrapping_add(10, wrapping_sub(30, capped)))

\* The costs of a sequence of [panic, val] estimates, or the panic of one.
AllReturned(costs) ==
    IF \E i \in 1..Len(costs) : costs[i].panic THEN Panicked
    ELSE Returned([i \in 1..Len(costs) |-> costs[i].val])

\* estimate_cost_simple: [panic, val]
RECURSIVE estimate_cost_simple(_, _)
estimate_cost_simple(expr, overflow_checks) ==
    CASE expr.kind = "Pred" -> Returned(estimate_predicate_cost_simple(expr.pred))
      [] expr.kind = "Text" -> estimate_text_cost_simple(expr.term, overflow_checks)
      [] expr.kind = "Not" ->
            Bind(estimate_cost_simple(expr.inner, overflow_checks),
                 LAMBDA inner : Returned(CostAdd(inner, 1)))
      [] expr.kind \in {"And", "Or"} ->
            Bind(AllReturned([i \in 1..Len(expr.children) |->
                                 estimate_cost_simple(expr.children[i], overflow_checks)]),
                 LAMBDA costs : Returned(MinOr(costs, 5)))

\* (n as f64 * share) as usize for the shares 0.30 and 0.6, given in tenths.
ShareOf(n, tenths) == (n * tenths) \div 10

estimate_predicate_cost(pred, candidate_count) ==
    CASE pred.field = "Ext" -> candidate_count
      [] pred.field = "Size" -> 2 * candidate_count
      [] pred.field \in {"Created", "Modified"} -> 3 * candidate_count

\* Option::map_or(0, |p| p.len())
PostingsLen(postings) == IF postings.some THEN Len(postings.val) ELSE 0

\* One step of the loop of estimate_text_term_cost: a cost with len added
\* when the posting list is neither empty nor longer than threshold.
AddInformative(cost, len, threshold) ==
    IF len > 0 /\ len <= threshold THEN cost + len ELSE cost

\* The loop of estimate_text_term_cost over the trigrams from the k-th on:
\* [impossible, file_cost, dir_cost].
RECURSIVE TermCostLoop(_, _, _, _, _)
TermCostLoop(index, trigrams, k, file_cost, dir_cost) ==
    IF k > Len(trigrams)
    THEN [impossible |-> FALSE, file_cost |-> file_cost, dir_cost |-> dir_cost]
    ELSE With(PostingsLen(query_trigram(index, trigrams[k])), LAMBDA f_len :
         With(PostingsLen(query_dir_trigram(index, trigrams[k])), LAMBDA d_len :
            IF f_len = 0 /\ d_len = 0
            THEN [impossible |-> TRUE, file_cost |-> file_cost, dir_cost |-> dir_cost]
            ELSE TermCostLoop(index, trigrams, k + 1,
                    AddInformative(file_cost, f_len, ShareOf(get_file_count(index), 3)),
                    AddInformative(dir_cost, d_len, ShareOf(dir_count(index), 3)))))

\* The cost estimate_text_term_cost derives from the loop's result r.
TermCostOf(r, file_count) ==
    IF r.impossible THEN Cost_ZERO
    ELSE IF r.file_cost > 0 THEN r.file_cost
    ELSE IF r.dir_cost > 0 THEN file_count + r.dir_cost
    ELSE Cost_VERY_BAD

estimate_text_term_cost(index, term) ==
    With(build_trigrams_for_string(term.text), LAMBDA trigrams :
        IF trigrams = <<>> THEN Cost_LINEAR_SCAN
        ELSE IF get_file_count(index) = 0 THEN Cost_ZERO
        ELSE TermCostOf(TermCostLoop(index, trigrams, 1, 0, 0), get_file_count(index)))

RECURSIVE estimate_cost_internal(_, _, _)
estimate_cost_internal(index, expr, candidate_count) ==
    CASE expr.kind = "Pred" -> estimate_predicate_cost(expr.pred, candidate_count)
      [] expr.kind = "Text" -> estimate_text_term_cost(index, expr.term)
      [] expr.kind = "Not" ->
            CostAdd(estimate_cost_internal(index, expr.inner, candidate_count), 1)
      [] expr.kind \in {"And", "Or"} ->
            MinOr([i \in 1..Len(expr.children) |->
                      estimate_cost_internal(index, expr.children[i], candidate_count)], 5)

estimate_cost(index, expr) == estimate_cost_internal(index, expr, get_file_count(index))

(***************************************************************************)
(* Text terms: crates/engine/src/eval/text.rs.                             *)
(* Paths and needles are ASCII here, so str::to_lowercase is the ASCII     *)
(* lowering and contains_lowercase_ascii takes its ASCII branch.           *)
(***************************************************************************)
\* The candidate-count cutoffs of the source are 2_000 and 256; they are
\* scaled down to the size of the indexes explored, keeping their order.
SMALL_CANDIDATE_CUTOFF == 2

EARLY_VERIFY_CUTOFF == 1

MAX_TRIGRAMS_PER_QUERY == 3

\* MAX_TRIGRAM_GLOBAL_SHARE = 0.30, in tenths
MAX_TRIGRAM_GLOBAL_SHARE == 3

contains_lowercase_ascii(haystack, needle_lower) ==
    IF needle_lower = <<>> THEN TRUE
    ELSE IF Len(needle_lower) > Len(haystack) THEN FALSE
    ELSE \E start \in 0..(Len(haystack) - Len(needle_lower)) :
            \A i \in 1..Len(needle_lower) :
                to_ascii_lowercase(haystack[start + i]) = needle_lower[i]

\* str::rfind('/'): the 0-based offset of the last '/', or -1.
RFindSlash(text) ==
    LET at == {k \in 1..Len(text) : text[k] = Str_slash[1]}
    IN IF at = {} THEN -1 ELSE (CHOOSE k \in at : \A j \in at : j <= k) - 1

extract_search_term(text) ==
    LET pos == RFindSlash(text)
    IN IF pos >= 0 THEN SubSeq(text, pos + 2, Len(text)) ELSE text

\* TextSearchState::new
TextSearchState(term) ==
    LET search == extract_search_term(term.text)
    IN [needle_lower |-> LowerStr(search), trigrams |-> build_trigrams_for_string(search)]

is_trigram_capable(state) == state.trigrams # <<>>

path_contains_all_terms(path, needles) ==
    \A k \in 1..Len(needles) : contains_lowercase_ascii(path, needles[k])

\* The test shared by the linear scan, the verification after trigram
\* filtering and filter_candidates_by_all_terms: the file name contains
\* every needle, or else the reconstructed full path does.  The path is
\* reconstructed only for a name that does not match.  [panic, val]
MatchesNameOrPath(index, needles, fid) ==
    IF path_contains_all_terms(get_file_name(index, fid), needles) THEN Returned(TRUE)
    ELSE Bind(reconstruct_full_path(index, fid),
              LAMBDA path : Returned(path_contains_all_terms(path, needles)))

\* The loop over the candidates from the k-th on, keeping the matching ones.
RECURSIVE KeepMatching(_, _, _, _, _)
KeepMatching(index, needles, candidates, k, out) ==
    IF k > Len(candidates) THEN Returned(out)
    ELSE Bind(MatchesNameOrPath(index, needles, candidates[k]),
              LAMBDA keep : KeepMatching(index, needles, candidates, k + 1,
                                         IF keep THEN Append(out, candidates[k]) ELSE out))

eval_text_linear_scan_with_paths(index, needle_lower, candidates) ==
    IF needle_lower = <<>> THEN Returned(candidates)
    ELSE KeepMatching(index, <<needle_lower>>, candidates, 1, <<>>)

filter_candidates_by_all_terms(index, terms, candidates) ==
    IF candidates = <<>> \/ terms = <<>> THEN Returned(candidates)
    ELSE KeepMatching(index,
                      [k \in 1..Len(terms) |-> LowerStr(extract_search_term(terms[k].text))],
                      candidates, 1, <<>>)

\* The items of a sequence of [key, item] pairs.
ItemsOf(pairs) == [k \in 1..Len(pairs) |-> pairs[k].item]

\* The (trigram, len) pairs sorted by len with sort_unstable_by_key.
SortByPostingsLen(index, trigrams, env) ==
    ItemsOf(SortKeyed([k \in 1..Len(trigrams) |->
                          [key |-> trigram_postings_len(index, trigrams[k]),
                           item |-> trigrams[k]]], env.keep_ties))

\* The loop of get_file_trigram_candidates from the k-th trigram on; current
\* is the buffer holding the running intersection once has_current is set.
RECURSIVE TrigramCandidatesLoop(_, _, _, _, _, _, _)
TrigramCandidatesLoop(index, tris, k, candidates, current, has_current, env) ==
    IF k > Len(tris) THEN (IF has_current THEN current ELSE <<>>)
    ELSE With(query_trigram(index, tris[k]), LAMBDA postings :
            IF ~postings.some THEN <<>>
            ELSE With(intersect_adaptive(IF has_current THEN current ELSE candidates,
                                         postings.val, env.pick),
                      LAMBDA next :
                        IF next = <<>> THEN <<>>
                        ELSE IF Len(next) <= EARLY_VERIFY_CUTOFF THEN next
                        ELSE TrigramCandidatesLoop(index, tris, k + 1, candidates,
                                                   next, TRUE, env)))

get_file_trigram_candidates(index, trigrams, candidates, env) ==
    IF trigrams = <<>> \/ candidates = <<>> THEN <<>>
    ELSE TrigramCandidatesLoop(index, SortByPostingsLen(index, trigrams, env), 1,
                               candidates, <<>>, FALSE, env)

\* The trigrams of the needle whose posting list is no longer than the
\* threshold, in needle order.
InformativeTrigrams(index, trigrams, threshold) ==
    SelectSeq(trigrams, LAMBDA tri : trigram_postings_len(index, tri) <= threshold)

\* The first MAX_TRIGRAMS_PER_QUERY of the informative trigrams sorted by
\* posting-list length.
EffectiveTrigrams(index, items, env) ==
    With(SortByPostingsLen(index, items, env), LAMBDA sorted :
        SubSeq(sorted, 1, Min(Len(sorted), MAX_TRIGRAMS_PER_QUERY)))

\* eval_text_base_with_state: [panic, val]
eval_text_base_with_state(index, state, candidates, env) ==
    IF candidates = <<>> THEN Returned(<<>>)
    ELSE IF ~is_trigram_capable(state) \/ Len(candidates) <= SMALL_CANDIDATE_CUTOFF
         THEN eval_text_linear_scan_with_paths(index, state.needle_lower, candidates)
    ELSE IF get_file_count(index) = 0 THEN Returned(<<>>)
    ELSE IF \E k \in 1..Len(state.trigrams) :
               trigram_postings_len(index, state.trigrams[k]) = 0
         THEN Returned(<<>>)
    ELSE With(InformativeTrigrams(index, state.trigrams,
                  ShareOf(get_file_count(index), MAX_TRIGRAM_GLOBAL_SHARE)),
              LAMBDA items :
                IF items = <<>>
                THEN eval_text_linear_scan_with_paths(index, state.needle_lower, candidates)
                ELSE With(get_file_trigram_candidates(index,
                              EffectiveTrigrams(index, items, env), candidates, env),
                          LAMBDA tri_candidates :
                            IF tri_candidates = <<>> THEN Returned(<<>>)
                            ELSE KeepMatching(index, <<state.needle_lower>>,
                                              tri_candidates, 1, <<>>)))

eval_text_term(index, term, candidates, env) ==
    eval_text_base_with_state(index, TextSearchState(term), candidates, env)
(***************************************************************************)
(* Predicates: crates/engine/src/eval/predicates.rs and the comparison and *)
(* time helpers of crates/engine/src/eval/helpers.rs.  A DateTime<Utc> is  *)
(* its timestamp in seconds; the offsets explored stay far inside chrono's *)
(* range, so no Duration or DateTime arithmetic overflows.                 *)
(***************************************************************************)
SECS_PER_HOUR == 3600

SECS_PER_DAY == 86400

\* str::eq_ignore_ascii_case
eq_ignore_ascii_case(a, b) == LowerStr(a) = LowerStr(b)

cmp_str_ci(lhs, rhs, op) ==
    CASE op = "Eq" -> eq_ignore_ascii_case(lhs, rhs)
      [] op = "Ne" -> ~eq_ignore_ascii_case(lhs, rhs)
      [] op \in {"Gt", "Ge", "Lt", "Le"} -> FALSE

cmp_u64(lhs, rhs, op) ==
    CASE op = "Eq" -> lhs = rhs
      [] op = "Ne" -> lhs # rhs
      [] op = "Gt" -> lhs > rhs
      [] op = "Ge" -> lhs >= rhs
      [] op = "Lt" -> lhs < rhs
      [] op = "Le" -> lhs <= rhs

cmp_i64(lhs, rhs, op) ==
    CASE op = "Eq" -> lhs = rhs
      [] op = "Ne" -> lhs # rhs
      [] op = "Gt" -> lhs > rhs
      [] op = "Ge" -> lhs >= rhs
      [] op = "Lt" -> lhs < rhs
      [] op = "Le" -> lhs <= rhs

\* Euclidean division, as chrono's calendar arithmetic uses it.
FloorDiv(a, b) == IF a >= 0 THEN a \div b ELSE -((-a + b - 1) \div b)

\* The proleptic Gregorian date [y, m, d] of a day number counted from
\* 1970-01-01, and the day number of a date.
civil_from_days(z0) ==
    With(z0 + 719468, LAMBDA z :
    With(FloorDiv(z, 146097), LAMBDA era :
    With(z - era * 146097, LAMBDA doe :
    With((doe - doe \div 1460 + doe \div 36524 - doe \div 146096) \div 365, LAMBDA yoe :
    With(doe - (365 * yoe + yoe \div 4 - yoe \div 100), LAMBDA doy :
    With((5 * doy + 2) \div 153, LAMBDA mp :
        [y |-> yoe + era * 400 + (IF mp >= 10 THEN 1 ELSE 0),
         m |-> IF mp < 10 THEN mp + 3 ELSE mp - 9,
         d |-> doy - (153 * mp + 2) \div 5 + 1]))))))

days_from_civil(y0, m, d) ==
    With(IF m <= 2 THEN y0 - 1 ELSE y0, LAMBDA y :
    With(FloorDiv(y, 400), LAMBDA era :
    With(y - era * 400, LAMBDA yoe :
        era * 146097
        + (yoe * 365 + yoe \div 4 - yoe \div 100
           + (153 * (IF m > 2 THEN m - 3 ELSE m + 9) + 2) \div 5 + d - 1)
        - 719468)))

\* Utc.with_ymd_and_hms(y, m, d, 0, 0, 0).single() for a valid date
ymd_midnight(y, m, d) == days_from_civil(y, m, d) * SECS_PER_DAY

DateOf(dt) == civil_from_days(FloorDiv(dt, SECS_PER_DAY))

start_of_day(dt) == With(DateOf(dt), LAMBDA c : ymd_midnight(c.y, c.m, c.d))

\* Weekday::num_days_from_monday: 1970-01-01 was a Thursday.
num_days_from_monday(dt) == (FloorDiv(dt, SECS_PER_DAY) + 3) % 7

start_of_week(dt) == start_of_day(dt - num_days_from_monday(dt) * SECS_PER_DAY)

start_of_month(dt) == With(DateOf(dt), LAMBDA c : ymd_midnight(c.y, c.m, 1))

resolve_relative_time(rel, now) ==
    now - (CASE rel.unit = "Days" -> rel.n * SECS_PER_DAY
             [] rel.unit = "Hours" -> rel.n * SECS_PER_HOUR
             [] rel.unit = "Weeks" -> rel.n * 7 * SECS_PER_DAY
             [] rel.unit = "Years" -> (rel.n * 365) * SECS_PER_DAY)

resolve_time_macro(mac, now) ==
    CASE mac = "Today" -> start_of_day(now)
      [] mac = "Yesterday" -> start_of_day(now - SECS_PER_DAY)
      [] mac = "ThisWeek" -> start_of_week(now)
      [] mac = "LastWeek" -> start_of_week(now - 7 * SECS_PER_DAY)
      [] mac = "ThisMonth" -> start_of_month(now)
      [] mac = "LastMonth" ->
            With(DateOf(now), LAMBDA c :
                IF c.m = 1 THEN ymd_midnight(c.y - 1, 12, 1)
                ELSE ymd_midnight(c.y, c.m - 1, 1))

resolve_time_expr(expr, now) ==
    CASE expr.kind = "Absolute" -> expr.secs
      [] expr.kind = "Relative" -> resolve_relative_time(expr.rel, now)
      [] expr.kind = "Macro" -> resolve_time_macro(expr.mac, now)

eval_predicate_size(index, pred, candidates) ==
    IF pred.value.kind # "SizeBytes" THEN <<>>
    ELSE SelectSeq(candidates,
                   LAMBDA fid : cmp_u64(get_file_size(index, fid), pred.value.bytes, pred.op))

eval_predicate_ext(index, pred, candidates) ==
    IF pred.value.kind # "Str" THEN <<>>
    ELSE SelectSeq(candidates,
                   LAMBDA fid : cmp_str_ci(get_file_ext(index, fid), pred.value.str, pred.op))

\* candidates.filter(|fid| cmp_i64(epoch(fid), threshold_secs, op))
FilterByEpoch(candidates, Epoch(_), threshold_secs, op) ==
    SelectSeq(candidates, LAMBDA fid : cmp_i64(Epoch(fid), threshold_secs, op))

eval_predicate_created(index, pred, candidates, now) ==
    IF pred.value.kind # "Time" THEN <<>>
    ELSE FilterByEpoch(candidates, LAMBDA fid : get_file_created_epoch(index, fid),
                       resolve_time_expr(pred.value.expr, now), pred.op)

eval_predicate_modified(index, pred, candidates, now) ==
    IF pred.value.kind # "Time" THEN <<>>
    ELSE FilterByEpoch(candidates, LAMBDA fid : get_file_modified_epoch(index, fid),
                       resolve_time_expr(pred.value.expr, now), pred.op)

eval_predicate(index, pred, candidates, now) ==
    CASE pred.field = "Ext" -> eval_predicate_ext(index, pred, candidates)
      [] pred.field = "Size" -> eval_predicate_size(index, pred, candidates)
      [] pred.field = "Modified" -> eval_predicate_modified(index, pred, candidates, now)
      [] pred.field = "Created" -> eval_predicate_created(index, pred, candidates, now)
(***************************************************************************)
(* Evaluator: crates/engine/src/eval/mod.rs.  Every function returns       *)
(* [panic, val]: the Vec<FileId> it returns, or the panic it unwinds with. *)
(***************************************************************************)
\* children.iter().filter_map(Leaf(Text(t)) => Some(t))
TextTermsOf(children) ==
    LET leaves == SelectSeq(children, LAMBDA c : c.kind = "Text")
    IN [k \in 1..Len(leaves) |-> leaves[k].term]

\* cost > broad_threshold || cost == VERY_BAD || cost == LINEAR_SCAN
IsBroad(cost, broad_threshold) ==
    cost > broad_threshold \/ cost = Cost_VERY_BAD \/ cost = Cost_LINEAR_SCAN

\* The seed of eval_pure_text_conjunction: the term of the first pair of
\* the sorted (cost, term) pairs whose cost is not broad, else of the first.
FirstSelective(term_costs, broad_threshold) ==
    With(SelectSeq(term_costs, LAMBDA tc : ~IsBroad(tc.key, broad_threshold)),
         LAMBDA selective : IF selective # <<>> THEN selective[1].item ELSE term_costs[1].item)

eval_pure_text_conjunction(index, terms, candidates, env) ==
    IF candidates = <<>> THEN Returned(<<>>)
    ELSE IF terms = <<>> THEN Returned(candidates)
    ELSE IF get_file_count(index) = 0 THEN Returned(<<>>)
    ELSE With(SortKeyed([k \in 1..Len(terms) |->
                            [key |-> estimate_text_term_cost(index, terms[k]),
                             item |-> terms[k]]], env.keep_ties),
              LAMBDA term_costs :
                IF \E k \in 1..Len(term_costs) : term_costs[k].key = Cost_ZERO
                THEN Returned(<<>>)
                ELSE Bind(eval_text_term(index,
                              FirstSelective(term_costs, ShareOf(get_file_count(index), 6)),
                              candidates, env),
                          LAMBDA seed_candidates :
                            IF seed_candidates = <<>> THEN Returned(<<>>)
                            ELSE filter_candidates_by_all_terms(index, terms, seed_candidates)))

\* The children sorted with sort_by_key under the keys given: [panic, val].
SortChildren(children, keys) ==
    Bind(AllReturned(keys),
         LAMBDA costs : Returned(ItemsOf(SortKeyed([k \in 1..Len(children) |->
                                     [key |-> costs[k], item |-> children[k]]], TRUE))))

\* The children of an And in the order they are evaluated: [panic, val].
\* The sort calls its key function only when there are two children or
\* more; the index-aware estimator is used when two or more are text leaves.
OrderChildren(index, children, env) ==
    IF Len(children) < 2 THEN Returned(children)
    ELSE SortChildren(children,
            [k \in 1..Len(children) |->
                IF Len(TextTermsOf(children)) >= 2
                THEN Returned(estimate_cost(index, children[k]))
                ELSE estimate_cost_simple(children[k], env.overflow_checks)])

eval_leaf(index, leaf, candidates, now, env) ==
    IF leaf.kind = "Text" THEN eval_text_term(index, leaf.term, candidates, env)
    ELSE Returned(eval_predicate(index, leaf.pred, candidates, now))

RECURSIVE eval_expr(_, _, _, _, _)
RECURSIVE AndFold(_, _, _, _, _, _)
RECURSIVE OrLoop(_, _, _, _, _, _, _)

\* for child in ordered { if current.is_empty() { break } current = eval_expr(child, current) }
AndFold(index, ordered, k, current, now, env) ==
    IF k > Len(ordered) \/ current = <<>> THEN Returned(current)
    ELSE Bind(eval_expr(index, ordered[k], current, now, env),
              LAMBDA subset : AndFold(index, ordered, k + 1, subset, now, env))

\* for child in children { acc = subset, or union_sorted(acc, subset) }
OrLoop(index, children, k, candidates, acc, now, env) ==
    IF k > Len(children) THEN Returned(acc)
    ELSE Bind(eval_expr(index, children[k], candidates, now, env),
              LAMBDA subset :
                OrLoop(index, children, k + 1, candidates,
                       IF acc = <<>> THEN subset
                       ELSE IF subset # <<>> THEN union_sorted(acc, subset)
                       ELSE acc,
                       now, env))

eval_expr(index, expr, candidates, now, env) ==
    CASE expr.kind \in {"Text", "Pred"} -> eval_leaf(index, expr, candidates, now, env)
      [] expr.kind = "And" ->
            IF expr.children = <<>> THEN Returned(candidates)
            ELSE With(TextTermsOf(expr.children), LAMBDA text_terms :
                    IF Len(text_terms) >= 2 /\ Len(text_terms) = Len(expr.children)
                    THEN eval_pure_text_conjunction(index, text_terms, candidates, env)
                    ELSE Bind(OrderChildren(index, expr.children, env),
                              LAMBDA ordered : AndFold(index, ordered, 1, candidates, now, env)))
      [] expr.kind = "Or" ->
            IF expr.children = <<>> THEN Returned(<<>>)
            ELSE OrLoop(index, expr.children, 1, candidates, <<>>, now, env)
      [] expr.kind = "Not" ->
            Bind(eval_expr(index, expr.inner, candidates, now, env),
                 LAMBDA inner_ids :
                    IF inner_ids = <<>> THEN Returned(candidates)
                    ELSE Returned(diff_sorted(candidates, inner_ids)))

\* eval_query: the candidates are 0..file_count-1 and the timestamp is
\* Utc::now().
AllFileIds(index) == [k \in 1..get_file_count(index) |-> k - 1]

eval_query(index, query, now, env) == eval_expr(index, query.expr, AllFileIds(index), now, env)
(***************************************************************************)
(* Lexer: crates/engine/src/dsl/lexer.rs.  The input is ASCII, a string is *)
(* the sequence of its bytes, and positions are 0-based byte offsets as in *)
(* the source.                                                             *)
(***************************************************************************)
\* char::is_whitespace on ASCII: tab, LF, VT, FF, CR, space
is_whitespace(c) == c \in {9, 10, 11, 12, 13, 32}

is_ascii_digit(c) == c \in 48..57

is_ascii_alphabetic(c) == c \in 65..90 \/ c \in 97..122

is_ascii_uppercase(c) == c \in 65..90

\* whitespace or one of ( ) : > < = "
is_delimiter(c) == is_whitespace(c) \/ c \in {40, 41, 58, 62, 60, 61, 34}

Str_or == <<111, 114>>                                    \* "or"
Str_and == <<97, 110, 100>>                               \* "and"
Str_not == <<110, 111, 116>>                              \* "not"

classify_keyword(lexeme) ==
    IF Len(lexeme) = 2 /\ LowerStr(lexeme) = Str_or THEN "Or"
    ELSE IF Len(lexeme) = 3 /\ LowerStr(lexeme) = Str_and THEN "And"
    ELSE IF Len(lexeme) = 3 /\ LowerStr(lexeme) = Str_not THEN "Not"
    ELSE "Ident"

Token(kind, lexeme, start, end) ==
    [kind |-> kind, lexeme |-> lexeme, span |-> <<start, end>>]

\* &input[start..end]
Slice(input, start, end) == SubSeq(input, start + 1, end)

\* The loop of scan_word_or_number: the offset of the first delimiter at or
\* after end, or the length of the input.
RECURSIVE ScanEnd(_, _)
ScanEnd(input, end) ==
    IF end < Len(input) /\ ~is_delimiter(input[end + 1]) THEN ScanEnd(input, end + 1)
    ELSE end

\* scan_word_or_number: [kind, end]; the first character is taken whatever
\* it is.
scan_word_or_number(input, start) ==
    LET end == ScanEnd(input, start + 1)
        lexeme == Slice(input, start, end)
        all_ascii_digits == \A i \in 1..Len(lexeme) : is_ascii_digit(lexeme[i])
    IN [kind |-> IF all_ascii_digits THEN "Number" ELSE classify_keyword(lexeme),
        end |-> end]

\* remainder.find('"'): the offset of the first '"' at or after from, or -1.
FindQuote(input, from) ==
    LET at == {k \in from..(Len(input) - 1) : input[k + 1] = 34}
    IN IF at = {} THEN -1 ELSE CHOOSE k \in at : \A j \in at : k <= j

\* Lexer::next_token at offset pos: [token, pos], pos the offset after it.
RECURSIVE next_token(_, _)
next_token(input, pos) ==
    IF pos >= Len(input)
    THEN [token |-> Token("Eof", <<>>, Len(input), Len(input)), pos |-> pos]
    ELSE LET c == input[pos + 1]
             start == pos
             followed_by(d) == start + 1 < Len(input) /\ input[start + 2] = d
             word == scan_word_or_number(input, start)
             quote == FindQuote(input, start + 1)
             single(kind) == [token |-> Token(kind, Slice(input, start, start + 1), start, start + 1),
                              pos |-> start + 1]
             double(kind) == [token |-> Token(kind, Slice(input, start, start + 2), start, start + 2),
                              pos |-> start + 2]
         IN IF is_whitespace(c) THEN next_token(input, pos + 1)
            ELSE CASE c = 40 -> single("LParen")
                   [] c = 41 -> single("RParen")
                   [] c = 58 -> single("Colon")
                   [] c = 61 -> single("Eq")
                   [] c = 62 -> IF followed_by(61) THEN double("Gte") ELSE single("Gt")
                   [] c = 60 -> IF followed_by(61) THEN double("Lte") ELSE single("Lt")
                   [] c = 34 ->
                        IF quote >= 0
                        THEN [token |-> Token("String", Slice(input, start + 1, quote),
                                              start, quote + 1),
                              pos |-> quote + 1]
                        ELSE [token |-> Token("String", Slice(input, start + 1, Len(input)),
                                              start, Len(input)),
                              pos |-> Len(input)]
                   [] c = 124 /\ followed_by(124) -> double("Or")
                   [] OTHER ->
                        [token |-> Token(word.kind, Slice(input, start, word.end),
                                         start, word.end),
                         pos |-> word.end]

\* lex: the tokens up to and including Eof
RECURSIVE LexFrom(_, _, _)
LexFrom(input, pos, tokens) ==
    LET t == next_token(input, pos)
    IN IF t.token.kind = "Eof" THEN Append(tokens, t.token)
       ELSE LexFrom(input, t.pos, Append(tokens, t.token))

lex(input) == LexFrom(input, 0, <<>>)

(***************************************************************************)
(* Predicate literals: crates/engine/src/dsl/predicates.rs.                *)
(* A parse returns [panic, some, val]: Some(val), None, or the panic it    *)
(* unwinds with.  i64 and u64 are the model's 31-bit word, so a literal    *)
(* that does not fit the word is rejected as the source rejects one that   *)
(* does not fit 64 bits, and a date is accepted for the years whose        *)
(* midnight fits the word.                                                 *)
(***************************************************************************)
ParseSome(v) == [panic |-> FALSE, some |-> TRUE, val |-> v]

ParseNone == [panic |-> FALSE, some |-> FALSE, val |-> <<>>]

ParsePanic == [panic |-> TRUE, some |-> FALSE, val |-> <<>>]

\* Option::map over a parse: F at the value of Some.
MapParse(r, F(_)) ==
    IF r.panic THEN ParsePanic ELSE IF r.some THEN ParseSome(F(r.val)) ELSE ParseNone

\* "if let Some(v) = r { return Some(v) }" followed by the rest of the body.
OrElseParse(r, rest) == IF r.panic \/ r.some THEN r ELSE rest

I64_MAX == U32_MAX

I64_MIN == -U32_MAX - 1

\* str::trim
Trim(s) ==
    LET keep == {i \in 1..Len(s) : ~is_whitespace(s[i])}
    IN IF keep = {} THEN <<>>
       ELSE SubSeq(s, CHOOSE i \in keep : \A j \in keep : i <= j,
                      CHOOSE i \in keep : \A j \in keep : j <= i)

\* The value of a string of decimal digits, None when a character is not a
\* digit or the value exceeds the word.
RECURSIVE ParseDigits(_, _, _)
ParseDigits(s, k, acc) ==
    IF k > Len(s) THEN Some(acc)
    ELSE IF ~is_ascii_digit(s[k]) THEN NoneSeq
    ELSE IF acc > (U32_MAX - (s[k] - 48)) \div 10 THEN NoneSeq
    ELSE ParseDigits(s, k + 1, acc * 10 + (s[k] - 48))

\* str::parse::<u64>: an optional '+' and at least one digit
parse_u64(s) ==
    LET digits == IF s # <<>> /\ s[1] = 43 THEN Tail(s) ELSE s
    IN IF digits = <<>> THEN NoneSeq ELSE ParseDigits(digits, 1, 0)

\* str::parse::<i64>: an optional sign and at least one digit; the most
\* negative value of the word is one past the largest magnitude.
parse_i64(s) ==
    LET negative == s # <<>> /\ s[1] = 45
        digits == IF s # <<>> /\ s[1] \in {43, 45} THEN Tail(s) ELSE s
        magnitude == ParseDigits(digits, 1, 0)
        front == ParseDigits(Front(digits), 1, 0)
    IN IF digits = <<>> THEN NoneSeq
       ELSE IF magnitude.some THEN Some(IF negative THEN -magnitude.val ELSE magnitude.val)
       ELSE IF /\ negative
               /\ front.some
               /\ front.val = I64_MAX \div 10
               /\ Last(digits) = 48 + (I64_MAX % 10) + 1
            THEN Some(I64_MIN)
       ELSE NoneSeq

join_lexemes(tokens) == Flatten([k \in 1..Len(tokens) |-> tokens[k].lexeme])

parse_ext_predicate(value_tokens) ==
    LET trimmed == Trim(value_tokens[1].lexeme)
        ext == IF StartsWith(trimmed, Str_dot) THEN Tail(trimmed) ELSE trimmed
    IN IF value_tokens = <<>> THEN ParseNone
       ELSE IF ext = <<>> THEN ParseNone
       ELSE ParseSome(Predicate("Ext", "Eq", ValStr(LowerStr(ext))))

\* extract_cmp_op: [op, rest].  "=" is tried before "!=", and a string that
\* starts with "!=" does not start with any of the five tried before it.
extract_cmp_op(s) ==
    IF StartsWith(s, <<62, 61>>) THEN [op |-> "Ge", rest |-> SubSeq(s, 3, Len(s))]
    ELSE IF StartsWith(s, <<60, 61>>) THEN [op |-> "Le", rest |-> SubSeq(s, 3, Len(s))]
    ELSE IF StartsWith(s, <<62>>) THEN [op |-> "Gt", rest |-> Tail(s)]
    ELSE IF StartsWith(s, <<60>>) THEN [op |-> "Lt", rest |-> Tail(s)]
    ELSE IF StartsWith(s, <<61>>) THEN [op |-> "Eq", rest |-> Tail(s)]
    ELSE IF StartsWith(s, <<33, 61>>) THEN [op |-> "Ne", rest |-> SubSeq(s, 3, Len(s))]
    ELSE [op |-> "Eq", rest |-> s]

Str_today == <<116, 111, 100, 97, 121>>                   \* "today"
Str_yesterday == <<121, 101, 115, 116, 101, 114, 100, 97, 121>> \* "yesterday"
Str_this_week == <<116, 104, 105, 115, 95, 119, 101, 101, 107>> \* "this_week"
Str_thisweek == <<116, 104, 105, 115, 119, 101, 101, 107>> \* "thisweek"
Str_last_week == <<108, 97, 115, 116, 95, 119, 101, 101, 107>> \* "last_week"
Str_lastweek == <<108, 97, 115, 116, 119, 101, 101, 107>> \* "lastweek"
Str_this_month == <<116, 104, 105, 115, 95, 109, 111, 110, 116, 104>> \* "this_month"
Str_thismonth == <<116, 104, 105, 115, 109, 111, 110, 116, 104>> \* "thismonth"
Str_last_month == <<108, 97, 115, 116, 95, 109, 111, 110, 116, 104>> \* "last_month"
Str_lastmonth == <<108, 97, 115, 116, 109, 111, 110, 116, 104>> \* "lastmonth"

parse_time_macro(s) ==
    CASE s = Str_today -> Some("Today")
      [] s = Str_yesterday -> Some("Yesterday")
      [] s \in {Str_this_week, Str_thisweek} -> Some("ThisWeek")
      [] s \in {Str_last_week, Str_lastweek} -> Some("LastWeek")
      [] s \in {Str_this_month, Str_thismonth} -> Some("ThisMonth")
      [] s \in {Str_last_month, Str_lastmonth} -> Some("LastMonth")
      [] OTHER -> NoneSeq

time_pred(field, op, expr) == Predicate(field, op, ValTime(expr))

\* str::split on one character, empty pieces kept
RECURSIVE SplitOnChar(_, _, _, _)
SplitOnChar(s, sep, k, cur) ==
    IF k > Len(s) THEN <<cur>>
    ELSE IF s[k] = sep THEN <<cur>> \o SplitOnChar(s, sep, k + 1, <<>>)
    ELSE SplitOnChar(s, sep, k + 1, Append(cur, s[k]))

DaysInMonth(y, m) ==
    IF m = 2 THEN (IF (y % 4 = 0 /\ y % 100 # 0) \/ y % 400 = 0 THEN 29 ELSE 28)
    ELSE IF m \in {4, 6, 9, 11} THEN 30 ELSE 31

\* The midnight of the date written by the pieces <<year, month, day>>.
DateOfParts(y, m, d) ==
    IF ~(y.some /\ m.some /\ d.some) THEN NoneSeq
    ELSE IF y.val \notin 1902..2037 \/ m.val \notin 1..12 THEN NoneSeq
    ELSE IF d.val \notin 1..DaysInMonth(y.val, m.val) THEN NoneSeq
    ELSE Some(ymd_midnight(y.val, m.val, d.val))

\* parse_ymd_date: NaiveDate::parse_from_str(s, "%Y-%m-%d") at midnight UTC,
\* for an unsigned year of up to four digits and a month and a day of one or
\* two digits.
parse_ymd_date(s) ==
    With(SplitOnChar(s, 45, 1, <<>>), LAMBDA parts :
        IF Len(parts) # 3 THEN NoneSeq
        ELSE IF \E k \in 1..3 : parts[k] = <<>> THEN NoneSeq
        ELSE IF Len(parts[1]) > 4 \/ Len(parts[2]) > 2 \/ Len(parts[3]) > 2 THEN NoneSeq
        ELSE DateOfParts(ParseDigits(parts[1], 1, 0), ParseDigits(parts[2], 1, 0),
                         ParseDigits(parts[3], 1, 0)))

\* n * sign in i64: [panic, val].  The product overflows for the most
\* negative n under sign -1: it panics when overflow is checked and wraps
\* to n otherwise.
MulSign(n, negative, overflow_checks) ==
    IF negative /\ n = I64_MIN
    THEN (IF overflow_checks THEN Panicked ELSE Returned(I64_MIN))
    ELSE Returned(IF negative THEN -n ELSE n)

\* match unit.as_str() { "d" | "h" | "w" | "y" => Some(..), _ => None }
RelativeOfUnit(unit, n) ==
    CASE unit = 100 -> ParseSome(Relative("Days", n))
      [] unit = 104 -> ParseSome(Relative("Hours", n))
      [] unit = 119 -> ParseSome(Relative("Weeks", n))
      [] unit = 121 -> ParseSome(Relative("Years", n))
      [] OTHER -> ParseNone

\* The literal after its sign: the number, the product and the unit.
RelativeOfRest(rest, negative, overflow_checks) ==
    IF Len(rest) < 2 THEN ParseNone
    ELSE With(parse_i64(Trim(Front(rest))), LAMBDA n :
            IF ~n.some THEN ParseNone
            ELSE With(MulSign(n.val, negative, overflow_checks), LAMBDA signed :
                    IF signed.panic THEN ParsePanic
                    ELSE RelativeOfUnit(to_ascii_lowercase(Last(rest)), signed.val)))

\* parse_relative_time_literal: literals like "-7d", "2w", "1y".
parse_relative_time_literal(s0, overflow_checks) ==
    With(Trim(s0), LAMBDA s :
        IF s = <<>> THEN ParseNone
        ELSE IF s[1] = 45 THEN RelativeOfRest(Tail(s), TRUE, overflow_checks)
        ELSE RelativeOfRest(s, FALSE, overflow_checks))

\* The block of parse_time_field_predicate for a single value token: the
\* predicate it returns, or None when the function goes on.
SingleTokenTime(field, tok, overflow_checks) ==
    With(parse_time_macro(LowerStr(tok.lexeme)), LAMBDA tm :
        IF tok.kind = "Ident" /\ tm.some THEN ParseSome(time_pred(field, "Ge", Macro(tm.val)))
        ELSE MapParse(parse_relative_time_literal(Trim(tok.lexeme), overflow_checks),
                      LAMBDA rt : time_pred(field, "Ge", rt)))

\* The rest of parse_time_field_predicate on the joined and trimmed lexemes
\* s: an operator, then a date or a relative literal.
JoinedTime(field, s, cmp, overflow_checks) ==
    With(parse_ymd_date(Trim(cmp.rest)), LAMBDA dt :
        IF dt.some
        THEN ParseSome(time_pred(field, IF cmp.rest = s THEN "Ge" ELSE cmp.op, Absolute(dt.val)))
        ELSE MapParse(parse_relative_time_literal(Trim(cmp.rest), overflow_checks),
                      LAMBDA rt : time_pred(field, IF cmp.rest = s THEN "Ge" ELSE cmp.op, rt)))

parse_time_field_predicate(field, value_tokens, overflow_checks) ==
    IF value_tokens = <<>> THEN ParseNone
    ELSE OrElseParse(IF Len(value_tokens) = 1
                     THEN SingleTokenTime(field, value_tokens[1], overflow_checks)
                     ELSE ParseNone,
                     With(Trim(join_lexemes(value_tokens)), LAMBDA s :
                          JoinedTime(field, s, extract_cmp_op(s), overflow_checks)))

parse_modified_predicate(value_tokens, overflow_checks) ==
    parse_time_field_predicate("Modified", value_tokens, overflow_checks)

parse_created_predicate(value_tokens, overflow_checks) ==
    parse_time_field_predicate("Created", value_tokens, overflow_checks)

\* is_bits_unit without the test of the first letter: every unit of two
\* letters or more that ends in 'b' means bits.
IsBitsWhateverTheCase(unit) ==
    unit # <<>> /\ Last(unit) = 98 /\ Len(unit) > 1

is_bits_unit(unit) ==
    unit # <<>> /\ Last(unit) = 98 /\ Len(unit) > 1 /\ is_ascii_uppercase(unit[1])

KIB == 1024

\* u64::saturating_mul
saturating_mul(a, b) ==
    IF a = 0 \/ b = 0 THEN 0
    ELSE IF a > U64_MAX \div b THEN U64_MAX
    ELSE a * b

\* num.saturating_mul(KIB^e): MIB, GIB and TIB are KIB * 1024 and so on, and
\* TIB itself exceeds the word.
RECURSIVE SaturatingMulKibPow(_, _)
SaturatingMulKibPow(num, e) ==
    IF e = 0 THEN num ELSE SaturatingMulKibPow(saturating_mul(num, KIB), e - 1)

\* The power of KIB a lowercased unit prefix stands for, or -1.
UnitFactorExponent(lower) ==
    CASE lower = <<>> -> 0
      [] lower \in {<<107>>, <<107, 105>>} -> 1
      [] lower \in {<<109>>, <<109, 105>>} -> 2
      [] lower \in {<<103>>, <<103, 105>>} -> 3
      [] lower \in {<<116>>, <<116, 105>>} -> 4
      [] OTHER -> -1

\* The offset at which parse_size splits the number from the unit: the
\* start of the trailing run of ASCII letters.
SplitOffset(s) ==
    LET non_alpha == {i \in 1..Len(s) : ~is_ascii_alphabetic(s[i])}
    IN IF non_alpha = {} THEN 0 ELSE CHOOSE i \in non_alpha : \A j \in non_alpha : j <= i

\* The bytes of num under a non-empty unit.
SizeWithUnit(num, unit_bytes) ==
    With(UnitFactorExponent(LowerStr(IF Last(unit_bytes) \in {98, 66}
                                     THEN Front(unit_bytes) ELSE unit_bytes)),
         LAMBDA e :
            IF e < 0 THEN NoneSeq
            ELSE IF is_bits_unit(unit_bytes) THEN Some(SaturatingMulKibPow(num, e) \div 8)
            ELSE Some(SaturatingMulKibPow(num, e)))

\* The number and the unit split at the offset.
SizeOfSplit(s, split) ==
    With(parse_u64(Trim(SubSeq(s, 1, split))), LAMBDA num :
        IF ~num.some THEN NoneSeq
        ELSE IF split = Len(s) THEN Some(num.val)
        ELSE SizeWithUnit(num.val, SubSeq(s, split + 1, Len(s))))

parse_size(s0) ==
    With(Trim(s0), LAMBDA s : IF s = <<>> THEN NoneSeq ELSE SizeOfSplit(s, SplitOffset(s)))

\* The predicate of parse_size_predicate from the operator and the size.
SizePredOf(op, bytes) ==
    IF ~bytes.some THEN ParseNone ELSE ParseSome(Predicate("Size", op, SizeBytes(bytes.val)))

parse_size_predicate(value_tokens) ==
    IF value_tokens = <<>> THEN ParseNone
    ELSE With(Trim(join_lexemes(value_tokens)), LAMBDA s :
            IF s = <<>> THEN ParseNone
            ELSE With(extract_cmp_op(s), LAMBDA cmp :
                    SizePredOf(cmp.op, parse_size(Trim(cmp.rest)))))

Str_created == <<99, 114, 101, 97, 116, 101, 100>>        \* "created"
Str_ext == <<101, 120, 116>>                              \* "ext"
Str_modified == <<109, 111, 100, 105, 102, 105, 101, 100>> \* "modified"
Str_size == <<115, 105, 122, 101>>                        \* "size"

parse_field_predicate(field_name, value_tokens, overflow_checks) ==
    LET name == LowerStr(field_name)
    IN CASE name = Str_created -> parse_created_predicate(value_tokens, overflow_checks)
         [] name = Str_ext -> parse_ext_predicate(value_tokens)
         [] name = Str_modified -> parse_modified_predicate(value_tokens, overflow_checks)
         [] name = Str_size -> parse_size_predicate(value_tokens)
         [] OTHER -> ParseNone

(***************************************************************************)
(* Parser: crates/engine/src/dsl/parser.rs.  The parser's state is the     *)
(* token slice and pos; a parsing method returns [panic, expr, pos], the   *)
(* expression it built and the position it leaves the parser at.           *)
(***************************************************************************)
Parsed(expr, pos) == [panic |-> FALSE, expr |-> expr, pos |-> pos]

ParserPanicked == [panic |-> TRUE, expr |-> <<>>, pos |-> 0]

\* The rest of a parsing method after a call that may panic: K at the
\* expression built and the position reached, or the panic.
BindParsed(r, K(_, _)) == IF r.panic THEN ParserPanicked ELSE K(r.expr, r.pos)

peek(tokens, pos) == IF pos < Len(tokens) THEN tokens[pos + 1].kind ELSE "Eof"

\* Parser::advance: the token it returns; pos becomes pos + 1
advance(tokens, pos) == IF pos < Len(tokens) THEN tokens[pos + 1] ELSE Token("Eof", <<>>, 0, 0)

true_expr == And(<<>>)

\* text.contains('*') || text.contains('?')
HasGlobChar(text) == \E i \in 1..Len(text) : text[i] \in {42, 63}

\* The lexemes joined with single spaces.
RECURSIVE JoinLexemesSpaced(_)
JoinLexemesSpaced(tokens) ==
    IF tokens = <<>> THEN <<>>
    ELSE IF Len(tokens) = 1 THEN tokens[1].lexeme
    ELSE tokens[1].lexeme \o <<32>> \o JoinLexemesSpaced(Tail(tokens))

text_from_tokens(tokens) ==
    IF tokens = <<>> THEN TextTerm(<<>>, FALSE, FALSE)
    ELSE LET text == JoinLexemesSpaced(tokens)
         IN TextTerm(text, tokens[1].kind = "String", HasGlobChar(text))

text_from_field_atom(field_name, value_tokens) ==
    LET s == field_name \o <<58>> \o JoinLexemesSpaced(value_tokens)
    IN TextTerm(s, FALSE, HasGlobChar(s))

\* RawAtom
FieldAtom(field_name, value_tokens) ==
    [kind |-> "Field", field_name |-> field_name, value_tokens |-> value_tokens]

BareAtom(tokens) == [kind |-> "Bare", tokens |-> tokens]

\* The position after the optional comparison operator of a field atom,
\* and after its optional value token.
AfterOperator(tokens, pos) ==
    IF peek(tokens, pos) \in {"Gt", "Lt", "Gte", "Lte", "Eq"} THEN pos + 1 ELSE pos

AfterValue(tokens, pos) ==
    IF peek(tokens, pos) \in {"Ident", "Number", "String"} THEN pos + 1 ELSE pos

\* Parser::parse_raw_atom: [atom, pos].  The value tokens are the tokens
\* advanced over after the colon.
parse_raw_atom(tokens, pos) ==
    IF peek(tokens, pos) = "Ident" /\ peek(tokens, pos + 1) = "Colon"
    THEN With(AfterValue(tokens, AfterOperator(tokens, pos + 2)), LAMBDA end :
            [atom |-> FieldAtom(advance(tokens, pos).lexeme, SubSeq(tokens, pos + 3, end)),
             pos |-> end])
    ELSE [atom |-> BareAtom(<<advance(tokens, pos)>>), pos |-> pos + 1]

\* resolve_atom: [panic, val], val the leaf
resolve_atom(atom, overflow_checks) ==
    IF atom.kind = "Field"
    THEN With(parse_field_predicate(LowerStr(atom.field_name), atom.value_tokens,
                                    overflow_checks),
              LAMBDA pred :
                IF pred.panic THEN Panicked
                ELSE IF pred.some THEN Returned(PredLeaf(pred.val))
                ELSE Returned(TextLeaf(text_from_field_atom(atom.field_name,
                                                            atom.value_tokens))))
    ELSE Returned(TextLeaf(text_from_tokens(atom.tokens)))

\* The position after the run of Not tokens that starts at pos.
RECURSIVE SkipNots(_, _)
SkipNots(tokens, pos) == IF peek(tokens, pos) = "Not" THEN SkipNots(tokens, pos + 1) ELSE pos

RECURSIVE parse_or_expr(_, _, _)
RECURSIVE ParseOrs(_, _, _, _)
RECURSIVE parse_and_expr(_, _, _)
RECURSIVE ParseTerms(_, _, _, _)
RECURSIVE parse_not_expr(_, _, _)
RECURSIVE parse_primary(_, _, _)

parse_or_expr(tokens, pos, overflow_checks) ==
    BindParsed(parse_and_expr(tokens, pos, overflow_checks),
               LAMBDA lhs, p : ParseOrs(tokens, p, <<lhs>>, overflow_checks))

\* while self.peek() == TokenKind::Or { advance; ors.push(parse_and_expr()) }
ParseOrs(tokens, pos, ors, overflow_checks) ==
    IF peek(tokens, pos) = "Or"
    THEN BindParsed(parse_and_expr(tokens, pos + 1, overflow_checks),
                    LAMBDA rhs, p : ParseOrs(tokens, p, Append(ors, rhs), overflow_checks))
    ELSE Parsed(IF Len(ors) = 1 THEN ors[1] ELSE Or(ors), pos)

\* parse_and_expr without its loop: one operand, so that AND no longer
\* binds the operands that follow.
ParseAndOneOperand(tokens, pos, overflow_checks) ==
    parse_not_expr(tokens, pos, overflow_checks)

parse_and_expr(tokens, pos, overflow_checks) ==
    BindParsed(parse_not_expr(tokens, pos, overflow_checks),
               LAMBDA first, p : ParseTerms(tokens, p, <<first>>, overflow_checks))

\* loop { break at Or, RParen, Eof; skip an explicit And; terms.push(parse_not_expr()) }
ParseTerms(tokens, pos, terms, overflow_checks) ==
    IF peek(tokens, pos) \in {"Or", "RParen", "Eof"}
    THEN Parsed(IF Len(terms) = 1 THEN terms[1] ELSE And(terms), pos)
    ELSE BindParsed(parse_not_expr(tokens,
                                   IF peek(tokens, pos) = "And" THEN pos + 1 ELSE pos,
                                   overflow_checks),
                    LAMBDA next, p : ParseTerms(tokens, p, Append(terms, next), overflow_checks))

parse_not_expr(tokens, pos, overflow_checks) ==
    BindParsed(parse_primary(tokens, SkipNots(tokens, pos), overflow_checks),
               LAMBDA expr, p :
                  Parsed(IF (SkipNots(tokens, pos) - pos) % 2 = 1 THEN Not(expr) ELSE expr, p))

parse_primary(tokens, pos, overflow_checks) ==
    CASE peek(tokens, pos) = "LParen" ->
            BindParsed(parse_or_expr(tokens, pos + 1, overflow_checks),
                       LAMBDA expr, p :
                          Parsed(expr, IF peek(tokens, p) = "RParen" THEN p + 1 ELSE p))
      [] peek(tokens, pos) \in {"Eof", "RParen", "Or", "And"} -> Parsed(true_expr, pos)
      [] OTHER ->
            With(parse_raw_atom(tokens, pos), LAMBDA raw :
                With(resolve_atom(raw.atom, overflow_checks), LAMBDA leaf :
                    IF leaf.panic THEN ParserPanicked ELSE Parsed(leaf.val, raw.pos)))

\* parse_query: [panic, val], val the Query
parse_query(input, overflow_checks) ==
    With(lex(input), LAMBDA tokens :
        IF Len(tokens) = 1 /\ tokens[1].kind = "Eof" THEN Returned(Query(true_expr))
        ELSE With(parse_or_expr(tokens, 0, overflow_checks), LAMBDA parsed :
                IF parsed.panic THEN Panicked ELSE Returned(Query(parsed.expr))))

(***************************************************************************)
(* Path-order filter and ranking: crates/engine/src/eval/rank/.            *)
(* A function that reconstructs a path returns [panic, val].               *)
(***************************************************************************)
\* str::find: the 0-based offset of the first occurrence of needle in
\* haystack at or after from, or -1.
FindFrom(haystack, needle, from) ==
    LET at == {k \in from..(Len(haystack) - Len(needle)) :
                  SubSeq(haystack, k + 1, k + Len(needle)) = needle}
    IN IF at = {} THEN -1 ELSE CHOOSE k \in at : \A j \in at : k <= j

RECURSIVE TermsMatchFrom(_, _, _, _)
TermsMatchFrom(path_lower, terms, k, search_start) ==
    IF k > Len(terms) THEN TRUE
    ELSE IF terms[k] = <<>> THEN TermsMatchFrom(path_lower, terms, k + 1, search_start)
    ELSE With(FindFrom(path_lower, terms[k], search_start), LAMBDA pos :
            IF pos < 0 THEN FALSE
            ELSE TermsMatchFrom(path_lower, terms, k + 1, pos + Len(terms[k])))

\* terms_match_in_order with every search started at the beginning of the
\* path instead of after the previous match.
TermsMatchAnywhere(path_lower, terms) ==
    \A k \in 1..Len(terms) : terms[k] = <<>> \/ FindFrom(path_lower, terms[k], 0) >= 0

terms_match_in_order(path_lower, terms) ==
    IF terms = <<>> THEN TRUE ELSE TermsMatchFrom(path_lower, terms, 1, 0)

\* collect_text_terms_in_order: the terms pushed, in order
RECURSIVE collect_text_terms_in_order(_)
collect_text_terms_in_order(expr) ==
    CASE expr.kind = "Text" ->
            LET t == LowerStr(Trim(expr.term.text))
            IN IF t # <<>> THEN <<t>> ELSE <<>>
      [] expr.kind = "And" ->
            Flatten([k \in 1..Len(expr.children) |->
                        collect_text_terms_in_order(expr.children[k])])
      [] expr.kind = "Or" ->
            IF expr.children # <<>> THEN collect_text_terms_in_order(expr.children[1])
            ELSE <<>>
      [] expr.kind \in {"Not", "Pred"} -> <<>>

\* The filter of apply_path_order_filter over file_ids from the k-th on.
RECURSIVE PathOrderKeep(_, _, _, _, _)
PathOrderKeep(index, terms, file_ids, k, out) ==
    IF k > Len(file_ids) THEN Returned(out)
    ELSE Bind(reconstruct_full_path(index, file_ids[k]),
              LAMBDA path :
                PathOrderKeep(index, terms, file_ids, k + 1,
                    IF terms_match_in_order(LowerStr(path), terms)
                    THEN Append(out, file_ids[k]) ELSE out))

apply_path_order_filter(index, query, file_ids) ==
    With(collect_text_terms_in_order(query.expr), LAMBDA terms :
        IF Len(terms) < 2 THEN Returned(file_ids)
        ELSE PathOrderKeep(index, terms, file_ids, 1, <<>>))

\* collect_text_terms: the terms pushed, in order
RECURSIVE collect_text_terms(_)
collect_text_terms(expr) ==
    CASE expr.kind \in {"And", "Or"} ->
            Flatten([k \in 1..Len(expr.children) |-> collect_text_terms(expr.children[k])])
      [] expr.kind = "Not" -> collect_text_terms(expr.inner)
      [] expr.kind = "Text" ->
            IF expr.term.text # <<>> THEN <<LowerStr(expr.term.text)>> ELSE <<>>
      [] expr.kind = "Pred" -> <<>>

\* RankingContext::from_query
RankingContext(query, now) == [terms |-> collect_text_terms(query.expr), now |-> now]

\* FileFeatures::extract; name_lower and full_path_lower are computed when
\* a scorer first asks for them.
FileFeatures(index, fid) ==
    [fid |-> fid,
     ext |-> get_file_ext(index, fid),
     modified_epoch |-> get_file_modified_epoch(index, fid),
     noise_flags |-> get_file_noise_bits(index, fid),
     path_depth |-> get_file_path_depth(index, fid)]

name_lower(index, features) == LowerStr(get_file_name(index, features.fid))

full_path_lower(index, features) ==
    Bind(reconstruct_full_path(index, features.fid),
         LAMBDA full_path : Returned(LowerStr(full_path)))

SCORE_NAME_EXACT == 120

SCORE_NAME_PREFIX == 80

SCORE_NAME_CONTAINS_BASE == 40

SCORE_NAME_CONTAINS_MIN == 10

SCORE_PATH_COMPONENT == 30

SCORE_PATH_CONTAINS == 15

SECS_PER_WEEK == 7 * SECS_PER_DAY

SECS_PER_MONTH == 30 * SECS_PER_DAY

RECENCY_TIERS ==
    <<[max_age |-> SECS_PER_DAY, score |-> 40],
      [max_age |-> SECS_PER_WEEK, score |-> 25],
      [max_age |-> SECS_PER_MONTH, score |-> 10]>>

PENALTY_SYSTEM_DIR == 60

PENALTY_BUILD_DIR == 90

PENALTY_CACHE_DIR == 70

PENALTY_HASHY_SEG == 40

PENALTY_VERY_DEEP == 10

PENALTY_APP_DATA_DIR == 50

PENALTY_LOG_DIR == 40

DEPTH_PENALTY_START == 8

DEPTH_PENALTY_PER_LEVEL == 2

DEPTH_PENALTY_MAX == 30

\* NoiseFlags::contains for one flag, and NoiseFlags::intersects
HasFlag(flags, flag) == BitAnd(flags, flag) # 0

score_path_depth(features) ==
    LET excess == Max(features.path_depth - DEPTH_PENALTY_START, 0)
        penalty == excess * DEPTH_PENALTY_PER_LEVEL
    IN -Min(penalty, DEPTH_PENALTY_MAX)

\* The sum of a sequence of integers.
RECURSIVE SumSeq(_)
SumSeq(s) == IF s = <<>> THEN 0 ELSE s[1] + SumSeq(Tail(s))

score_term_in_name(name, term) ==
    LET pos == FindFrom(name, term, 0)
    IN IF name = term THEN SCORE_NAME_EXACT
       ELSE IF StartsWith(name, term) THEN SCORE_NAME_PREFIX
       ELSE IF pos >= 0 THEN Max(SCORE_NAME_CONTAINS_BASE - pos, SCORE_NAME_CONTAINS_MIN)
       ELSE 0

score_name_match(index, features, ctx) ==
    IF ctx.terms = <<>> THEN 0
    ELSE SumSeq([k \in 1..Len(ctx.terms) |->
                    score_term_in_name(name_lower(index, features), ctx.terms[k])])

score_term_in_path(full_path, term) ==
    LET components == SplitNonEmpty(full_path, Str_slash[1], <<>>)
    IN IF \E k \in 1..Len(components) : components[k] = term THEN SCORE_PATH_COMPONENT
       ELSE IF FindFrom(full_path, term, 0) >= 0 THEN SCORE_PATH_CONTAINS
       ELSE 0

\* score_path_match: [panic, val]
score_path_match(index, features, ctx) ==
    IF ctx.terms = <<>> THEN Returned(0)
    ELSE Bind(full_path_lower(index, features),
              LAMBDA path : Returned(SumSeq([k \in 1..Len(ctx.terms) |->
                                                score_term_in_path(path, ctx.terms[k])])))

NoRecencyFlags == {BUILD_DIR, CACHE_DIR, APP_DATA_DIR, LOG_DIR}

score_recency(features, ctx) ==
    LET age_secs == ctx.now - features.modified_epoch
        tiers == SelectSeq(RECENCY_TIERS, LAMBDA t : age_secs < t.max_age)
    IN IF \E f \in NoRecencyFlags : HasFlag(features.noise_flags, f) THEN 0
       ELSE IF tiers # <<>> THEN tiers[1].score
       ELSE 0

\* "pdf" "doc" "docx" "txt" "md" "rst" "rtf" "odt"
DOCUMENT_EXTS ==
    {<<112, 100, 102>>, <<100, 111, 99>>, <<100, 111, 99, 120>>,
     <<116, 120, 116>>, <<109, 100>>, <<114, 115, 116>>, <<114, 116, 102>>,
     <<111, 100, 116>>}

\* "rs" "py" "js" "ts" "jsx" "tsx" "go" "java" "c" "cpp" "h" "hpp" "rb" "php" ...
CODE_EXTS ==
    {<<114, 115>>, <<112, 121>>, <<106, 115>>, <<116, 115>>,
     <<106, 115, 120>>, <<116, 115, 120>>, <<103, 111>>,
     <<106, 97, 118, 97>>, <<99>>, <<99, 112, 112>>, <<104>>,
     <<104, 112, 112>>, <<114, 98>>, <<112, 104, 112>>,
     <<115, 119, 105, 102, 116>>, <<107, 116>>, <<115, 99, 97, 108, 97>>,
     <<104, 115>>, <<109, 108>>, <<101, 120>>, <<101, 120, 115>>,
     <<99, 108, 106>>, <<99, 115>>, <<102, 115>>, <<108, 117, 97>>,
     <<115, 104>>, <<98, 97, 115, 104>>, <<122, 115, 104>>,
     <<102, 105, 115, 104>>, <<112, 108>>, <<114>>, <<115, 113, 108>>,
     <<122, 105, 103>>, <<110, 105, 109>>, <<118>>, <<100>>, <<99, 114>>}

\* "json" "yaml" "yml" "toml" "ini" "cfg" "conf" "xml" "env"
CONFIG_EXTS ==
    {<<106, 115, 111, 110>>, <<121, 97, 109, 108>>, <<121, 109, 108>>,
     <<116, 111, 109, 108>>, <<105, 110, 105>>, <<99, 102, 103>>,
     <<99, 111, 110, 102>>, <<120, 109, 108>>, <<101, 110, 118>>}

\* "exe" "dll" "so" "dylib" "o" "a" "lib" "bin" "class" "pyc" "pyo" "wasm"
BINARY_EXTS ==
    {<<101, 120, 101>>, <<100, 108, 108>>, <<115, 111>>,
     <<100, 121, 108, 105, 98>>, <<111>>, <<97>>, <<108, 105, 98>>,
     <<98, 105, 110>>, <<99, 108, 97, 115, 115>>, <<112, 121, 99>>,
     <<112, 121, 111>>, <<119, 97, 115, 109>>}

\* i32 division, which truncates toward zero
TruncDiv(a, b) == IF a >= 0 THEN a \div b ELSE -((-a) \div b)

score_type_category(features) ==
    LET base == CASE features.ext \in DOCUMENT_EXTS -> 20
                  [] features.ext \in CODE_EXTS -> 15
                  [] features.ext \in CONFIG_EXTS -> 5
                  [] features.ext \in BINARY_EXTS -> -20
                  [] OTHER -> 0
    IN IF \E f \in NoRecencyFlags \cup {SYSTEM_DIR} : HasFlag(features.noise_flags, f)
       THEN TruncDiv(base, 3)
       ELSE base

noise_penalty(features) ==
    LET flags == features.noise_flags
    IN (IF HasFlag(flags, SYSTEM_DIR) THEN PENALTY_SYSTEM_DIR ELSE 0)
       + (IF HasFlag(flags, BUILD_DIR) THEN PENALTY_BUILD_DIR ELSE 0)
       + (IF HasFlag(flags, CACHE_DIR) THEN PENALTY_CACHE_DIR ELSE 0)
       + (IF HasFlag(flags, HASHY_SEG) THEN PENALTY_HASHY_SEG ELSE 0)
       + (IF HasFlag(flags, VERY_DEEP) THEN PENALTY_VERY_DEEP ELSE 0)
       + (IF HasFlag(flags, APP_DATA_DIR) THEN PENALTY_APP_DATA_DIR ELSE 0)
       + (IF HasFlag(flags, LOG_DIR) THEN PENALTY_LOG_DIR ELSE 0)

\* compute_score: [panic, val]
compute_score(index, features, ctx) ==
    Bind(score_path_match(index, features, ctx),
         LAMBDA path_score :
            Returned(score_name_match(index, features, ctx)
                     + path_score
                     + score_recency(features, ctx)
                     + score_path_depth(features)
                     + score_type_category(features)
                     - noise_penalty(features)))

compute_quick_score(features, ctx) ==
    score_recency(features, ctx)
    + score_type_category(features)
    + score_path_depth(features)
    - noise_penalty(features)

(***************************************************************************)
(* rank (crates/engine/src/eval/rank/mod.rs), the query pipeline           *)
(* (crates/engine/src/pipeline.rs) and Index::run_query                    *)
(* (crates/engine/src/query_runner.rs).  The stage timings of the timed    *)
(* pipeline are not modelled.                                              *)
(***************************************************************************)
\* The hit-count threshold of the source is 1000; it is scaled down to the
\* size of the indexes explored, and stays above the single-pass corpora.
TWO_PASS_THRESHOLD == 10

TWO_PASS_RATIO == 10

\* b.1.cmp(&a.1).then_with(|| a.0.cmp(&b.0)) is Less: a sorts before b
ScoredBefore(a, b) == a.score > b.score \/ (a.score = b.score /\ a.fid < b.fid)

RECURSIVE InsertScored(_, _)
InsertScored(sorted, e) ==
    IF sorted = <<>> THEN <<e>>
    ELSE IF ScoredBefore(e, sorted[1]) THEN <<e>> \o sorted
    ELSE <<sorted[1]>> \o InsertScored(Tail(sorted), e)

\* slice::sort_by with that comparator
RECURSIVE SortScored(_)
SortScored(scored) ==
    IF scored = <<>> THEN <<>> ELSE InsertScored(SortScored(Front(scored)), Last(scored))

\* slice::select_nth_unstable_by(n, ..): the element of rank n is in place,
\* those before it sort before it and those after it sort after it; the
\* order inside the two parts is unspecified, kept or reversed here.
select_nth_unstable_by(scored, n, keep_order) ==
    With(SortScored(scored), LAMBDA sorted :
        IF keep_order THEN sorted
        ELSE Reverse(SubSeq(sorted, 1, n)) \o <<sorted[n + 1]>>
             \o Reverse(SubSeq(sorted, n + 2, Len(sorted))))

\* Vec::truncate
Truncate(v, n) == SubSeq(v, 1, Min(n, Len(v)))

\* hits.iter().map(|fid| (fid, compute_score(..))).collect(): [panic, val]
RECURSIVE ScoreAll(_, _, _, _, _)
ScoreAll(index, ctx, fids, k, out) ==
    IF k > Len(fids) THEN Returned(out)
    ELSE Bind(compute_score(index, FileFeatures(index, fids[k]), ctx),
              LAMBDA score :
                ScoreAll(index, ctx, fids, k + 1,
                         Append(out, [fid |-> fids[k], score |-> score])))

FidsOf(scored) == [k \in 1..Len(scored) |-> scored[k].fid]

\* hits.iter().map(|fid| (fid, compute_quick_score(..))).collect()
QuickScoreAll(index, ctx, hits) ==
    [k \in 1..Len(hits) |->
        [fid |-> hits[k], score |-> compute_quick_score(FileFeatures(index, hits[k]), ctx)]]

\* select_nth_unstable_by(n, ..) then truncate(n); the selection panics for
\* an n that is not an index of the slice.  [panic, val]
SelectTop(scored, n, env) ==
    IF n >= Len(scored) THEN Panicked
    ELSE Returned(Truncate(select_nth_unstable_by(scored, n, env.keep_ties), n))

\* rank_two_pass: [panic, val]
rank_two_pass(index, ctx, hits, limit, env) ==
    Bind(SelectTop(QuickScoreAll(index, ctx, hits), Min(limit * 3, Len(hits)), env),
         LAMBDA quick_scored :
            Bind(ScoreAll(index, ctx, FidsOf(quick_scored), 1, <<>>),
                 LAMBDA fully_scored :
                    Returned(FidsOf(Truncate(SortScored(fully_scored), limit)))))

\* The single pass without the sort of the prefix that select_nth_unstable_by
\* leaves unordered.
SelectWithoutSort(scored, effective_limit, env) ==
    IF effective_limit < Len(scored) \div 2
    THEN Bind(SelectTop(scored, effective_limit, env),
              LAMBDA top : Returned(FidsOf(top)))
    ELSE Returned(FidsOf(Truncate(SortScored(scored), effective_limit)))

\* The single pass of rank over the scored hits: [panic, val]
SortAndLimit(scored, effective_limit, env) ==
    IF effective_limit < Len(scored) \div 2
    THEN Bind(SelectTop(scored, effective_limit, env),
              LAMBDA top : Returned(FidsOf(SortScored(top))))
    ELSE Returned(FidsOf(Truncate(SortScored(scored), effective_limit)))

\* rank from the effective limit on: [panic, val]
RankWithin(index, ctx, hits, effective_limit, env) ==
    IF Len(hits) > TWO_PASS_THRESHOLD /\ Len(hits) \div effective_limit > TWO_PASS_RATIO
    THEN rank_two_pass(index, ctx, hits, effective_limit, env)
    ELSE Bind(ScoreAll(index, ctx, hits, 1, <<>>),
              LAMBDA scored : SortAndLimit(scored, effective_limit, env))

\* rank: [panic, val]; limit is an Option<usize>
rank(index, query, hits, now, limit, env) ==
    IF hits = <<>> THEN Returned(<<>>)
    ELSE IF limit.some /\ limit.val = 0 THEN Returned(<<>>)
    ELSE RankWithin(index, RankingContext(query, now), hits,
                    IF limit.some THEN Min(limit.val, Len(hits)) ELSE Len(hits), env)

\* The display path of iter_with_paths.
DisplayPath(rel_path) ==
    IF rel_path = <<>> THEN Str_slash
    ELSE IF StartsWith(rel_path, Str_slash) THEN rel_path
    ELSE Str_slash \o rel_path

EngineQueryHit(rank_no, file_id, path) == [rank |-> rank_no, file_id |-> file_id, path |-> path]

\* iter_with_paths collected into hits: [panic, val]
RECURSIVE iter_with_paths(_, _, _, _)
iter_with_paths(index, results, k, out) ==
    IF k > Len(results) THEN Returned(out)
    ELSE Bind(reconstruct_full_path(index, results[k]),
              LAMBDA rel_path :
                iter_with_paths(index, results, k + 1,
                    Append(out, EngineQueryHit(k, results[k], DisplayPath(rel_path)))))

\* QueryEvent::new(raw_query, hits, duration_ms), the duration left out
QueryEvent(raw_query, hits) == [raw_query |-> raw_query, hits |-> hits]

\* log_history: the events appended to the history log, none when
\* HistoryStore::new() finds history disabled or no state directory.
log_history(query_str, result_total, history_available) ==
    IF history_available THEN <<QueryEvent(query_str, result_total)>> ELSE <<>>

RunPanicked == [panic |-> TRUE, hits |-> <<>>, total |-> 0, query_str |-> <<>>, logged |-> <<>>]

\* The rest of run_query after a stage that may panic.
BindRun(r, K(_)) == IF r.panic THEN RunPanicked ELSE K(r.val)

\* Index::run_query: [panic, hits, total, query_str, logged].  ctx.now and
\* the evaluator's own Utc::now() are read within the same call and are
\* the same instant here.
run_query(index, query, limit, now, env, history_available) ==
    BindRun(parse_query(query, env.overflow_checks), LAMBDA parsed :
    BindRun(eval_query(index, parsed, now, env), LAMBDA hits :
    BindRun(apply_path_order_filter(index, parsed, hits), LAMBDA filtered :
    BindRun(rank(index, parsed, filtered, now, Some(limit), env), LAMBDA ranked :
    BindRun(iter_with_paths(index, ranked, 1, <<>>), LAMBDA with_paths :
        [panic |-> FALSE,
         hits |-> with_paths,
         total |-> Len(filtered),
         query_str |-> query,
         logged |-> log_history(query, Len(filtered), history_available)])))))
(***************************************************************************)
(* State                                                                   *)
(***************************************************************************)
VARIABLES
    setA, setB,     \* the two operand slices handed to the set algebra
    setOp,          \* the last set operation applied ("none" before any)
    setX, setY,     \* its arguments, in call order
    setOut,         \* its result
    idxPhase,       \* how far the index has come: "building", "staged",
                    \* "written", "failed", "open", "queried", "read" ("idle" when
                    \* no index is being built)
    builder,        \* the IndexBuilder
    added,          \* the FileRecords handed to add_record so far, in order
    staged,         \* the StagedIndex returned by finish
    disk,           \* the index file: an Option of its bytes
    index,          \* the result of Index::open: [ok, index]
    probeTri,       \* the trigram last looked up in the opened index
    probeOut,       \* the Option<&[u32]> that lookup returned
    probeId,        \* the FileId last read through the accessors
    probeFile,      \* what each accessor returned for it
    wPc,            \* where write_index_atomic stands: "create_dir_all",
                    \* "tempfile", "write_index_to", "write_all", "flush",
                    \* "sync_all", "persist", "sync_dir", then "ok" or
                    \* "err" as it returned ("idle" when it is not running)
    wFs,            \* the files of the destination's directory: file name
                    \* to an Option of the file's bytes
    wStaged,        \* the StagedIndex being written
    wCreated,       \* the clock reading write_index_to stamps the image with
    wChunks,        \* the byte strings still to be handed to write_all
    wBuf,           \* the bytes held by the BufWriter
    wSynced,        \* whether the temp file's bytes have been fsynced
    wBefore,        \* the destination as it was when the call began
    swCurrent,      \* DaemonState.index: the Arc<Index> inside the RwLock,
                    \* as the number of the Index it points to
    swStrong,       \* the strong count of every Arc<Index> allocated
    swMapped,       \* the Indexes whose mapping is live (not yet dropped)
    swReaders,      \* the threads holding the RwLock for reading
    swWriter,       \* the thread holding it for writing, or "none"
    swInstalled,    \* the Indexes in the order they were stored in the lock
    swReturned,     \* how many of them were stored by a swap_index call
                    \* that has returned (the initial one counts)
    clients,        \* per client thread: pc, the handle it holds (an
                    \* Option), swReturned when it called current_index, and
                    \* what each read of its query found
    swappers,       \* per swapping thread: pc and the Index it is storing
    qIndex,         \* the Index the queries run against
    qRecs,          \* the FileRecords it was built from, in FileId order
    qChecks,        \* whether the build checks integer overflow
    qNow,           \* Utc::now() in seconds
    qOp,            \* the last call made: "eval_expr", "eval_query" or
                    \* "run_query" ("none" before any)
    qExpr,          \* the QueryExpr evaluated
    qCands,         \* the candidates handed to eval_expr
    qOut,           \* what the evaluation returned: [panic, val]
    qText,          \* the query string handed to run_query
    qLimit,         \* its limit
    qRun,           \* what run_query returned: [panic, hits, total]
    wkRoots,        \* the roots handed to walk_parallel
    wkThreads,      \* num_threads
    wkQueue,        \* the directories in the work channel, oldest first
    wkPending,      \* the AtomicUsize pending
    wkWorkers,      \* per worker thread: pc ("recv", "check", "scan",
                    \* "send_dir", "dec", "flush", "done"), the directory
                    \* it scans, the entries read_dir has yet to yield, the
                    \* subdirectory about to be queued, and its batch
    wkOut,          \* the batches sent on file_tx, in order
    wkMain          \* "running" until thread::scope has joined every
                    \* worker, then "returned" ("idle" when no walk runs)

setVars == <<setA, setB, setOp, setX, setY, setOut>>

idxVars == <<idxPhase, builder, added, staged, disk, index, probeTri, probeOut,
            probeId, probeFile>>

swVars == <<swCurrent, swStrong, swMapped, swReaders, swWriter, swInstalled, swReturned,
            clients, swappers>>

qVars == <<qIndex, qRecs, qChecks, qNow, qOp, qExpr, qCands, qOut, qText, qLimit, qRun>>

wkVars == <<wkRoots, wkThreads, wkQueue, wkPending, wkWorkers, wkOut, wkMain>>

wrVars == <<wPc, wFs, wStaged, wCreated, wChunks, wBuf, wSynced, wBefore>>

vars == <<setA, setB, setOp, setX, setY, setOut,
          idxPhase, builder, added, staged, disk, index, probeTri, probeOut,
          probeId, probeFile,
          wPc, wFs, wStaged, wCreated, wChunks, wBuf, wSynced, wBefore,
          swCurrent, swStrong, swMapped, swReaders, swWriter, swInstalled, swReturned,
          clients, swappers,
          qIndex, qRecs, qChecks, qNow, qOp, qExpr, qCands, qOut, qText, qLimit, qRun,
          wkRoots, wkThreads, wkQueue, wkPending, wkWorkers, wkOut, wkMain>>

\* The variables a part of the model leaves alone.
nonSetVars == <<idxVars, wrVars, swVars, qVars, wkVars>>

nonIdxVars == <<setVars, wrVars, swVars, qVars, wkVars>>

nonWrVars == <<setVars, idxVars, swVars, qVars, wkVars>>

nonSwVars == <<setVars, idxVars, wrVars, qVars, wkVars>>

nonQVars == <<setVars, idxVars, wrVars, swVars, wkVars>>

nonWkVars == <<setVars, idxVars, wrVars, swVars, qVars>>

\* The values of the variables of a part of the model that is not running.
SetsIdle ==
    /\ setA = <<>> /\ setB = <<>> /\ setOp = "none"
    /\ setX = <<>> /\ setY = <<>> /\ setOut = <<>>

IndexIdle ==
    /\ idxPhase = "idle" /\ builder = <<>> /\ added = <<>> /\ staged = <<>>
    /\ disk = NoneSeq /\ index = NoIndex /\ probeTri = 0 /\ probeOut = NoneSeq
    /\ probeId = 0 /\ probeFile = <<>>

WriteIdle ==
    /\ wPc = "idle" /\ wFs = <<>> /\ wStaged = <<>> /\ wCreated = 0
    /\ wChunks = <<>> /\ wBuf = <<>> /\ wSynced = FALSE /\ wBefore = NoneSeq

SwapIdle ==
    /\ swCurrent = 0 /\ swStrong = <<>> /\ swMapped = {} /\ swReaders = {}
    /\ swWriter = "none" /\ swInstalled = <<>> /\ swReturned = 0
    /\ clients = <<>> /\ swappers = <<>>

QueryIdle ==
    /\ qIndex = <<>> /\ qRecs = <<>> /\ qChecks = FALSE /\ qNow = 0 /\ qOp = "none"
    /\ qExpr = <<>> /\ qCands = <<>> /\ qOut = <<>> /\ qText = <<>> /\ qLimit = 0
    /\ qRun = <<>>

WalkIdle ==
    /\ wkRoots = <<>> /\ wkThreads = 0 /\ wkQueue = <<>> /\ wkPending = 0
    /\ wkWorkers = <<>> /\ wkOut = <<>> /\ wkMain = "idle"

NonSetsIdle == IndexIdle /\ WriteIdle /\ SwapIdle /\ QueryIdle /\ WalkIdle

NonIndexIdle == SetsIdle /\ WriteIdle /\ SwapIdle /\ QueryIdle /\ WalkIdle

NonWriteIdle == SetsIdle /\ IndexIdle /\ SwapIdle /\ QueryIdle /\ WalkIdle

NonSwapIdle == SetsIdle /\ IndexIdle /\ WriteIdle /\ QueryIdle /\ WalkIdle

NonQueryIdle == SetsIdle /\ IndexIdle /\ WriteIdle /\ SwapIdle /\ WalkIdle

NonWalkIdle == SetsIdle /\ IndexIdle /\ WriteIdle /\ SwapIdle /\ QueryIdle
(***************************************************************************)
(* The records handed to the builder: a small tree under the index root    *)
(* /home/u/project, with one record of every kind the walker emits, and    *)
(* one path outside the root.                                              *)
(***************************************************************************)
Str_home == <<104, 111, 109, 101>>                    \* "home"
Str_u == <<117>>                                      \* "u"
Str_project == <<112, 114, 111, 106, 101, 99, 116>>   \* "project"
Str_src == <<115, 114, 99>>                           \* "src"
Str_query_rs == <<113, 117, 101, 114, 121, 46, 114, 115>>  \* "query.rs"
Str_target == <<116, 97, 114, 103, 101, 116>>         \* "target"
Str_debug == <<100, 101, 98, 117, 103>>               \* "debug"
Str_q == <<113>>                                      \* "q"
Str_README_md == <<82, 69, 65, 68, 77, 69, 46, 109, 100>>  \* "README.md"
Str_link_rs == <<108, 105, 110, 107, 46, 114, 115>>   \* "link.rs"
Str_env == <<46, 101, 110, 118>>                      \* ".env"
Str_run_sock == <<114, 117, 110, 46, 115, 111, 99, 107>>   \* "run.sock"
Str_bin == <<98, 105, 110>>                           \* "bin"
Str_lib == <<108, 105, 98>>                           \* "lib"
Str_etc == <<101, 116, 99>>                           \* "etc"
Str_hosts == <<104, 111, 115, 116, 115>>              \* "hosts"
Str_rs == <<114, 115>>                                \* "rs"
Str_md == <<109, 100>>                                \* "md"
Str_sock == <<115, 111, 99, 107>>                     \* "sock"

NoExt == [some |-> FALSE, val |-> <<>>]

Root == AbsPath(<<Str_home, Str_u, Str_project>>)

\* A FileRecord as the walker builds it: the name is the last component of
\* the path; kind is "file", "dir", "symlink", "special" or "hidden".
Record(comps, ext, size, mtime, kind) ==
    [full_path |-> AbsPath(comps),
     name |-> Last(comps),
     size |-> size,
     mtime_secs |-> mtime,
     ctime_secs |-> mtime - 100,
     atime_secs |-> 0,
     ext |-> ext,
     is_dir |-> kind = "dir",
     is_symlink |-> kind = "symlink",
     is_special |-> kind = "special",
     in_trash |-> FALSE,
     ignored_glob |-> FALSE,
     hidden_os |-> kind = "hidden",
     user_excludes |-> FALSE]

UnderRoot(rel) == Root.comps \o rel

Rec_query_rs == Record(UnderRoot(<<Str_src, Str_query_rs>>), Some(Str_rs), 1200, 1700000300, "file")
Rec_q == Record(UnderRoot(<<Str_target, Str_debug, Str_q>>), NoExt, 4096, 1700000200, "file")
Rec_README_md == Record(UnderRoot(<<Str_README_md>>), Some(Str_md), 300, 1700000100, "file")
Rec_link_rs == Record(UnderRoot(<<Str_src, Str_link_rs>>), Some(Str_rs), 9, 1700000400, "symlink")
Rec_env == Record(UnderRoot(<<Str_env>>), NoExt, 64, 1700000500, "hidden")
Rec_run_sock == Record(UnderRoot(<<Str_run_sock>>), Some(Str_sock), 0, 1700000600, "special")
Rec_bin == Record(UnderRoot(<<Str_src, Str_bin>>), NoExt, 4096, 1700000700, "dir")
Rec_lib == Record(UnderRoot(<<Str_src, Str_lib>>), NoExt, 4096, 1700000800, "dir")
Rec_hosts == Record(<<Str_etc, Str_hosts>>, NoExt, 220, 1700000900, "file")

RecordUniverse ==
    {Rec_query_rs, Rec_q, Rec_README_md, Rec_link_rs, Rec_env, Rec_run_sock,
     Rec_bin, Rec_lib, Rec_hosts}

\* At most MaxRecords records are added to one builder.
MaxRecords == 3

\* SystemTime::now() in seconds, as write_index_to reads it (0 when the clock
\* is before the epoch).
ClockValues == {0, 1700001000}

\* The trigrams looked up in an opened index.
Str_que == <<113, 117, 101>>                          \* "que"
Str_dot_rs == <<46, 114, 115>>                        \* ".rs"
Str_zzz == <<122, 122, 122>>                          \* "zzz"

TrigramOf(s) == from_bytes(s[1], s[2], s[3])

ProbeTrigrams == {TrigramOf(Str_src), TrigramOf(Str_que), TrigramOf(Str_dot_rs), TrigramOf(Str_zzz)}


\* The staged index of a builder fed the records recs in order.
RECURSIVE AddAll(_, _)
AddAll(b, recs) ==
    IF recs = <<>> THEN b
    ELSE LET next == add_record(b, recs[1])
         IN IF Len(next.files) = Len(b.files) + 1 THEN AddAll(next, Tail(recs)) ELSE next

StagedOf(recs) == finish(AddAll(NewBuilder(Root), recs))

\* The indexes handed to write_index_atomic, and what the destination holds
\* before the call: nothing, an older index, or bytes that are no index.
StagedChoices ==
    {StagedOf(<<>>), StagedOf(<<Rec_query_rs>>), StagedOf(<<Rec_query_rs, Rec_q>>)}

OldDestinations ==
    {NoneSeq, Some(IndexImage(StagedOf(<<Rec_README_md>>), 0, 0)), Some(<<1, 2, 3>>)}
(***************************************************************************)
(* The indexes queried and the queries put to them.                        *)
(***************************************************************************)
Str_query_runner_rs == <<113, 117, 101, 114, 121, 95, 114, 117, 110, 110, 101, 114, 46, 114, 115>> \* "query_runner.rs"
Str_main_rs == <<109, 97, 105, 110, 46, 114, 115>>    \* "main.rs"
Str_docs == <<100, 111, 99, 115>>                     \* "docs"
Str_Query_MD == <<81, 117, 101, 114, 121, 46, 77, 68>> \* "Query.MD"
Str_mainframe_rs == <<109, 97, 105, 110, 102, 114, 97, 109, 101, 46, 114, 115>> \* "mainframe.rs"
Str_query == <<113, 117, 101, 114, 121>>              \* "query"
Str_main == <<109, 97, 105, 110>>                     \* "main"
Str_runner == <<114, 117, 110, 110, 101, 114>>        \* "runner"
Str_src_QUERY == <<115, 114, 99, 47, 81, 85, 69, 82, 89>> \* "src/QUERY"

\* Utc::now(): 2023-11-14 22:30:00, a Tuesday.
NowValues == {1700001000}

Rec_query_runner_rs ==
    Record(UnderRoot(<<Str_src, Str_query_runner_rs>>), Some(Str_rs), 2048, 1699900000, "file")
Rec_main_rs == Record(UnderRoot(<<Str_src, Str_main_rs>>), Some(Str_rs), 500, 1699800000, "file")
Rec_Query_MD == Record(UnderRoot(<<Str_docs, Str_Query_MD>>), Some(Str_md), 7000, 1698800000, "file")
Rec_mainframe_rs ==
    Record(UnderRoot(<<Str_src, Str_mainframe_rs>>), Some(Str_rs), 0, 1696200000, "file")

\* The index of the two files of the end-to-end example, and a larger one
\* in which the first extension interned is not "rs" and some trigrams are
\* rare enough to drive the trigram filter.
Corpus_example == <<Rec_query_rs, Rec_q>>

Corpus_project ==
    <<Rec_README_md, Rec_query_rs, Rec_query_runner_rs, Rec_main_rs, Rec_Query_MD, Rec_q,
      Rec_mainframe_rs, Rec_bin>>

\* Regular files only, "md" the first extension interned.
Corpus_sources ==
    <<Rec_README_md, Rec_main_rs, Rec_query_rs, Rec_query_runner_rs, Rec_Query_MD>>

QueryCorpora == {Corpus_example, Corpus_project, Corpus_sources}

\* The opened index of a corpus: build, write, open.
OpenedIndexOf(recs, created_secs) ==
    IndexOpen(Some(IndexImage(StagedOf(recs), 0, created_secs))).index

\* Text terms longer than 30 characters are MaxTermLen long.
MaxTermLen == 31

Txt(text) == TextLeaf(TextTerm(text, FALSE, FALSE))

P(field, op, value) == PredLeaf(Predicate(field, op, value))

ExtIs(ext) == P("Ext", "Eq", ValStr(ext))

LargerThan1000 == P("Size", "Gt", SizeBytes(1000))

LongTerm == Txt(Rep(97, MaxTermLen))

LeafUniverse ==
    {Txt(Str_query), Txt(Str_main), Txt(Str_runner), Txt(Str_q), Txt(Str_zzz), Txt(Str_src_QUERY),
     ExtIs(Str_rs), ExtIs(Str_md), LargerThan1000,
     P("Size", "Ne", ValStr(Str_rs)),
     P("Modified", "Ge", ValTime(Macro("Today"))),
     P("Modified", "Ge", ValTime(Macro("LastWeek"))),
     P("Created", "Ge", ValTime(Macro("ThisMonth"))),
     P("Created", "Ge", ValTime(Relative("Days", 1))),
     P("Modified", "Lt", ValTime(Absolute(1699920000)))}

CompoundUniverse ==
    {And(<<>>), Or(<<>>), Not(And(<<>>)),
     And(<<Txt(Str_query), ExtIs(Str_rs)>>),
     And(<<Txt(Str_query), Txt(Str_src)>>),
     And(<<Txt(Str_main), Txt(Str_rs)>>),
     And(<<Txt(Str_query), Txt(Str_zzz)>>),
     And(<<Txt(Str_query), Txt(Str_runner), LargerThan1000>>),
     Or(<<Txt(Str_q), ExtIs(Str_md)>>),
     Or(<<Txt(Str_main), Txt(Str_query), Txt(Str_zzz)>>),
     Not(Txt(Str_query)),
     Not(Not(ExtIs(Str_rs))),
     And(<<ExtIs(Str_rs), Not(Txt(Str_main))>>),
     Or(<<And(<<Txt(Str_query), ExtIs(Str_rs)>>), Not(LargerThan1000)>>),
     And(<<LongTerm>>),
     And(<<Txt(Rep(97, MaxTermLen - 1)), ExtIs(Str_rs)>>),
     And(<<LongTerm, ExtIs(Str_rs)>>),
     And(<<Or(<<LongTerm, Txt(Str_q)>>), LargerThan1000>>)}

ExprUniverse == LeafUniverse \cup CompoundUniverse

\* The candidate sets handed to eval_expr for an index of n files: every
\* run lo..hi of FileIds, the even and the odd FileIds, as strictly
\* ascending vectors.
CandidateSets(n) ==
    {SetToSeq(lo..hi) : lo \in 0..n, hi \in -1..(n - 1)}
    \cup {SetToSeq({k \in 0..(n - 1) : k % 2 = 0}), SetToSeq({k \in 0..(n - 1) : k % 2 = 1})}

Picks == {"first", "last"}

\* The query strings handed to run_query.
Q_query_ext_rs == <<113, 117, 101, 114, 121, 32, 101, 120, 116, 58, 114, 115>> \* "query ext:rs"
Q_ext_rs_query == <<101, 120, 116, 58, 114, 115, 32, 113, 117, 101, 114, 121>> \* "ext:rs query"
Q_QUERY_ext_RS == <<81, 85, 69, 82, 89, 32, 101, 120, 116, 58, 82, 83>> \* "QUERY ext:RS"
Q_main_ext_rs == <<109, 97, 105, 110, 32, 101, 120, 116, 58, 114, 115>> \* "main ext:rs"
Q_query_ext_md == <<113, 117, 101, 114, 121, 32, 101, 120, 116, 58, 109, 100>> \* "query ext:md"
Q_query == <<113, 117, 101, 114, 121>>                \* "query"
Q_src_query == <<115, 114, 99, 32, 113, 117, 101, 114, 121>> \* "src query"
Q_query_src == <<113, 117, 101, 114, 121, 32, 115, 114, 99>> \* "query src"
Q_ext_rs == <<101, 120, 116, 58, 114, 115>>           \* "ext:rs"
Q_size_gt_1k == <<115, 105, 122, 101, 58, 62, 49, 107>> \* "size:>1k"
Q_modified_today == <<109, 111, 100, 105, 102, 105, 101, 100, 58, 116, 111, 100, 97, 121>> \* "modified:today"
Q_q_or_main == <<113, 32, 79, 82, 32, 109, 97, 105, 110>> \* "q OR main"
Q_not_query == <<78, 79, 84, 32, 113, 117, 101, 114, 121>> \* "NOT query"
Q_empty == <<>>                                       \* ""
Q_open_paren == <<40, 113, 117, 101, 114, 121>>       \* "(query"
Q_unknown_field == <<120, 121, 122, 58, 102, 111, 111, 42>> \* "xyz:foo*"
Q_phrase == <<34, 113, 117, 101, 114, 121, 34, 32, 114, 117, 110, 110, 101, 114>> \* "\"query\" runner"
Q_created_date == <<99, 114, 101, 97, 116, 101, 100, 58, 62, 61, 50, 48, 50, 51, 45, 49, 49, 45, 48, 49>> \* "created:>=2023-11-01"

\* A term of MaxTermLen characters followed by " ext:rs".
Q_long_ext_rs == Rep(97, MaxTermLen) \o <<32>> \o Q_ext_rs

QueryStrings ==
    {Q_query_ext_rs, Q_ext_rs_query, Q_QUERY_ext_RS, Q_main_ext_rs, Q_query_ext_md, Q_query,
     Q_src_query, Q_query_src, Q_ext_rs, Q_size_gt_1k, Q_modified_today, Q_q_or_main,
     Q_not_query, Q_empty, Q_open_paren, Q_unknown_field, Q_phrase, Q_created_date,
     Q_long_ext_rs}

\* The limits handed to run_query.
QueryLimits == {0, 1, 10}
(***************************************************************************)
(* Specification of the set algebra: operands are drawn from bounded       *)
(* families of sorted slices and every operation is applied to them.       *)
(***************************************************************************)
MaxVal == 10
MaxMult == 8

StrictSmall == {SetToSeq(S) : S \in {T \in SUBSET (1..MaxVal) : Cardinality(T) <= 2}}

StrictAll == {SetToSeq(S) : S \in SUBSET (1..MaxVal)}

\* Sorted slices with repeated elements: short ones, and long runs.
DupSmall == {<<>>, <<1>>, <<2>>, <<1, 1>>, <<1, 2>>, <<2, 2>>}

DupLarge == {Rep(1, c[1]) \o Rep(2, c[2]) \o Rep(3, c[3]) : c \in [1..3 -> {0, 2, MaxMult}]}

SetsInit ==
    /\ \/ setA \in StrictSmall /\ setB \in StrictAll
       \/ setA \in DupSmall /\ setB \in DupLarge
    /\ setOp = "none"
    /\ setX = <<>>
    /\ setY = <<>>
    /\ setOut = <<>>
    /\ NonSetsIdle

Operands == {<<setA, setB>>, <<setB, setA>>}

IntersectSorted ==
    \E p \in Operands :
        /\ setOp = "none"
        /\ setOp' = "intersect_sorted"
        /\ setX' = p[1] /\ setY' = p[2]
        /\ setOut' = intersect_sorted(p[1], p[2])
        /\ UNCHANGED <<setA, setB>>
        /\ UNCHANGED nonSetVars

IntersectAdaptive ==
    \E p \in Operands, pick \in {"first", "last"} :
        /\ setOp = "none"
        /\ setOp' = "intersect_adaptive"
        /\ setX' = p[1] /\ setY' = p[2]
        /\ setOut' = intersect_adaptive(p[1], p[2], pick)
        /\ UNCHANGED <<setA, setB>>
        /\ UNCHANGED nonSetVars

UnionSorted ==
    \E p \in Operands :
        /\ setOp = "none"
        /\ setOp' = "union_sorted"
        /\ setX' = p[1] /\ setY' = p[2]
        /\ setOut' = union_sorted(p[1], p[2])
        /\ UNCHANGED <<setA, setB>>
        /\ UNCHANGED nonSetVars

DiffSorted ==
    \E p \in Operands :
        /\ setOp = "none"
        /\ setOp' = "diff_sorted"
        /\ setX' = p[1] /\ setY' = p[2]
        /\ setOut' = diff_sorted(p[1], p[2])
        /\ UNCHANGED <<setA, setB>>
        /\ UNCHANGED nonSetVars

SetsNext == IntersectSorted \/ IntersectAdaptive \/ UnionSorted \/ DiffSorted

SpecSets == SetsInit /\ [][SetsNext]_vars

(***************************************************************************)
(* Specification of the index life cycle: records are added to a fresh     *)
(* builder, the builder is finished, the staged index is written, the file *)
(* is opened and trigrams are looked up in the opened index.               *)
(***************************************************************************)
IndexInit ==
    /\ idxPhase = "building"
    /\ builder = NewBuilder(Root)
    /\ added = <<>>
    /\ staged = <<>>
    /\ disk = NoneSeq
    /\ index = NoIndex
    /\ probeTri = 0
    /\ probeOut = NoneSeq
    /\ probeId = 0
    /\ probeFile = <<>>
    /\ NonIndexIdle

\* IndexBuilder::add_record
AddRecord ==
    \E rec \in RecordUniverse :
        /\ idxPhase = "building"
        /\ Len(added) < MaxRecords
        /\ rec \notin Range(added)
        /\ builder' = add_record(builder, rec)
        /\ added' = Append(added, rec)
        /\ UNCHANGED <<idxPhase, staged, disk, index, probeTri, probeOut, probeId, probeFile>>
        /\ UNCHANGED nonIdxVars

\* IndexBuilder::finish
Finish ==
    /\ idxPhase = "building"
    /\ staged' = finish(builder)
    /\ idxPhase' = "staged"
    /\ UNCHANGED <<builder, added, disk, index, probeTri, probeOut, probeId, probeFile>>
    /\ UNCHANGED nonIdxVars

\* write_index_atomic as a whole: the file appears at the destination, or an
\* I/O error leaves the destination as it was.
WriteIndex ==
    \E created_secs \in ClockValues, io_ok \in BOOLEAN :
        /\ idxPhase = "staged"
        /\ IF io_ok
           THEN /\ disk' = Some(IndexImage(staged, 0, created_secs))
                /\ idxPhase' = "written"
           ELSE /\ disk' = disk
                /\ idxPhase' = "failed"
        /\ UNCHANGED <<builder, added, staged, index, probeTri, probeOut, probeId, probeFile>>
        /\ UNCHANGED nonIdxVars

\* Index::open
OpenIndex ==
    /\ idxPhase = "written"
    /\ index' = IndexOpen(disk)
    /\ idxPhase' = "open"
    /\ UNCHANGED <<builder, added, staged, disk, probeTri, probeOut, probeId, probeFile>>
    /\ UNCHANGED nonIdxVars

\* IndexReader::query_trigram
QueryTrigram ==
    \E tri \in ProbeTrigrams :
        /\ idxPhase = "open"
        /\ index.ok
        /\ probeTri' = tri
        /\ probeOut' = query_trigram(index.index, tri)
        /\ idxPhase' = "queried"
        /\ UNCHANGED <<builder, added, staged, disk, index, probeId, probeFile>>
        /\ UNCHANGED nonIdxVars

IndexNext == AddRecord \/ Finish \/ WriteIndex \/ OpenIndex \/ QueryTrigram

SpecIndex == IndexInit /\ [][IndexNext]_vars

(***************************************************************************)
(* Specification of Index::open on index files that were damaged after     *)
(* they were written: the file at the path is a written image with its     *)
(* magic, its version, its length or one section descriptor altered.       *)
(***************************************************************************)
\* The image with the bytes at offset off replaced.
PatchBytes(image, off, bytes) ==
    [k \in 1..Len(image) |->
        IF k > off /\ k <= off + Len(bytes) THEN bytes[k - off] ELSE image[k]]

\* Where the SectionDesc of the i-th section lies in the header.
SectionDescOffset(i) == 48 + (i - 1) * SIZE_SECTION_DESC

\* The amounts a section's offset is moved by: off its alignment, onto the
\* next aligned offset, and past the end of the file.
OffsetShifts(image) == {1, 4, SECTION_ALIGNMENT, Len(image)}

Damages(image) ==
    {[kind |-> "none"], [kind |-> "magic"], [kind |-> "version"]}
    \cup {[kind |-> "truncate", to |-> n] : n \in {0, SIZE_INDEX_HEADER - 1, Len(image) - 1}}
    \cup {[kind |-> "offset", section |-> i, by |-> d] :
             i \in 1..Len(SectionNames), d \in OffsetShifts(image)}
    \cup {[kind |-> "len", section |-> i, by |-> Len(image)] : i \in 1..Len(SectionNames)}

Damaged(image, d) ==
    CASE d.kind = "none" -> image
      [] d.kind = "magic" -> PatchBytes(image, 0, LE(INDEX_MAGIC + 1, 4))
      [] d.kind = "version" -> PatchBytes(image, 4, LE(INDEX_VERSION + 1, 4))
      [] d.kind = "truncate" -> SubSeq(image, 1, d.to)
      [] d.kind = "offset" ->
            PatchBytes(image, SectionDescOffset(d.section),
                       LE(RdU64(image, SectionDescOffset(d.section)) + d.by, 8))
      [] d.kind = "len" ->
            PatchBytes(image, SectionDescOffset(d.section) + 8,
                       LE(RdU64(image, SectionDescOffset(d.section) + 8) + d.by, 8))

\* The record sets the written images hold.
StoredCorpora == {<<>>, <<Rec_query_rs, Rec_q>>, <<Rec_README_md, Rec_link_rs, Rec_bin>>}

StoredImages ==
    {IndexImage(StagedOf(recs), 0, created_secs) :
        recs \in StoredCorpora, created_secs \in ClockValues}

OpenInit ==
    /\ idxPhase = "written"
    /\ \E image \in StoredImages : \E d \in Damages(image) : disk = Some(Damaged(image, d))
    /\ builder = <<>> /\ added = <<>> /\ staged = <<>>
    /\ index = NoIndex
    /\ probeTri = 0 /\ probeOut = NoneSeq
    /\ probeId = 0 /\ probeFile = <<>>
    /\ NonIndexIdle

OpenNext == OpenIndex

SpecOpen == OpenInit /\ [][OpenNext]_vars
(***************************************************************************)
(* Specification of the accessors of an opened index: an index of up to    *)
(* MaxRecords records is built, written and opened, and every accessor of  *)
(* IndexReader is called for one FileId.                                   *)
(***************************************************************************)
\* The sequences of distinct records handed to a builder.
RecordSeqs ==
    {s \in UNION {[1..n -> RecordUniverse] : n \in 0..MaxRecords} :
        \A i, j \in DOMAIN s : i # j => s[i] # s[j]}

ReadInit ==
    /\ idxPhase = "open"
    /\ added \in RecordSeqs
    /\ builder = AddAll(NewBuilder(Root), added)
    /\ staged = finish(builder)
    /\ \E created_secs \in ClockValues \ {0} :
          disk = Some(IndexImage(staged, 0, created_secs))
    /\ index = IndexOpen(disk)
    /\ probeTri = 0
    /\ probeOut = NoneSeq
    /\ probeId = 0
    /\ probeFile = <<>>
    /\ NonIndexIdle

\* Every accessor of impl IndexReader for Index called for one FileId, in
\* range or one or two past the last.
ReadFile ==
    /\ idxPhase = "open"
    /\ index.ok
    /\ \E id \in 0..(get_file_count(index.index) + 1) :
          /\ probeId' = id
          /\ probeFile' = FileView(index.index, id)
    /\ idxPhase' = "read"
    /\ UNCHANGED <<builder, added, staged, disk, index, probeTri, probeOut>>
    /\ UNCHANGED nonIdxVars

ReadNext == ReadFile

SpecRead == ReadInit /\ [][ReadNext]_vars
(***************************************************************************)
(* Specification of the writer alone: a builder that was given a sequence  *)
(* of distinct records is finished, and the staged index is written.       *)
(***************************************************************************)
MaxLayoutRecords == 3

\* Every sequence of at most MaxLayoutRecords distinct records.
LayoutCorpora ==
    {recs \in UNION {[1..n -> RecordUniverse] : n \in 0..MaxLayoutRecords} :
        \A i, j \in 1..Len(recs) : i # j => recs[i] # recs[j]}

LayoutInit ==
    /\ \E recs \in LayoutCorpora :
          /\ added = recs
          /\ builder = AddAll(NewBuilder(Root), recs)
          /\ staged = StagedOf(recs)
    /\ idxPhase = "staged"
    /\ disk = NoneSeq
    /\ index = NoIndex
    /\ probeTri = 0
    /\ probeOut = NoneSeq
    /\ probeId = 0
    /\ probeFile = <<>>
    /\ NonIndexIdle

LayoutNext == WriteIndex

SpecLayout == LayoutInit /\ [][LayoutNext]_vars
(***************************************************************************)
(* Specification of one run of write_index_atomic, statement by statement. *)
(* Every call that can return an I/O error either succeeds or fails; a     *)
(* failing statement returns the error to the caller, dropping the         *)
(* BufWriter (which flushes what it can) and the NamedTempFile (which      *)
(* unlinks the temp file).                                                 *)
(***************************************************************************)
WriteInit ==
    /\ wPc = "create_dir_all"
    /\ wStaged \in StagedChoices
    /\ wBefore \in OldDestinations
    /\ wFs = [n \in FileNames |-> IF n = DestName THEN wBefore ELSE NoneSeq]
    /\ wCreated = 0
    /\ wChunks = <<>>
    /\ wBuf = <<>>
    /\ wSynced = FALSE
    /\ NonWriteIdle

\* fs::create_dir_all(parent)?
CreateDirAll ==
    \E io_ok \in BOOLEAN :
        /\ wPc = "create_dir_all"
        /\ wPc' = IF io_ok THEN "tempfile" ELSE "err"
        /\ UNCHANGED <<wFs, wStaged, wCreated, wChunks, wBuf, wSynced, wBefore>>
        /\ UNCHANGED nonWrVars

\* NamedTempFile::new_in(parent)?
NewTempFile ==
    \E io_ok \in BOOLEAN :
        /\ wPc = "tempfile"
        /\ IF io_ok
           THEN /\ wFs' = [wFs EXCEPT ![TempFileName] = Some(<<>>)]
                /\ wPc' = "write_index_to"
           ELSE /\ wFs' = wFs
                /\ wPc' = "err"
        /\ UNCHANGED <<wStaged, wCreated, wChunks, wBuf, wSynced, wBefore>>
        /\ UNCHANGED nonWrVars

\* write_index_to up to its first write: the clock is read, the sections are
\* encoded and placed, the header is built.
EncodeIndex ==
    \E created_secs \in ClockValues :
        /\ wPc = "write_index_to"
        /\ wCreated' = created_secs
        /\ wChunks' = write_index_to(wStaged, 0, created_secs)
        /\ wBuf' = <<>>
        /\ wPc' = "write_all"
        /\ UNCHANGED <<wFs, wStaged, wSynced, wBefore>>
        /\ UNCHANGED nonWrVars

\* writer.write_all(chunk)? for the next chunk.  When the call reaches the
\* file it may fail after any part of the bytes.
WriteAll ==
    /\ wPc = "write_all"
    /\ wChunks # <<>>
    /\ LET w == BufWriteAll(wBuf, wChunks[1])
       IN \/ /\ wFs' = FileAppend(wFs, TempFileName, w.out)
             /\ wBuf' = w.buf
             /\ wChunks' = Tail(wChunks)
             /\ wPc' = "write_all"
          \/ /\ w.out # <<>>
             /\ \E n \in 0..(Len(w.out) + Len(w.buf)), unlinked \in BOOLEAN :
                   wFs' = DropTempFile(wFs, TempFileName, w.out \o w.buf, n, unlinked)
             /\ wBuf' = <<>>
             /\ wChunks' = wChunks
             /\ wPc' = "err"
    /\ wSynced' = FALSE
    /\ UNCHANGED <<wStaged, wCreated, wBefore>>
    /\ UNCHANGED nonWrVars

\* writer.flush()? after the last chunk.
Flush ==
    /\ wPc = "write_all"
    /\ wChunks = <<>>
    /\ \/ /\ wFs' = FileAppend(wFs, TempFileName, wBuf)
          /\ wPc' = "sync_all"
       \/ /\ \E n \in 0..Len(wBuf), unlinked \in BOOLEAN :
                wFs' = DropTempFile(wFs, TempFileName, wBuf, n, unlinked)
          /\ wPc' = "err"
    /\ wBuf' = <<>>
    /\ wSynced' = FALSE
    /\ UNCHANGED <<wStaged, wCreated, wChunks, wBefore>>
    /\ UNCHANGED nonWrVars

\* tmp.as_file().sync_all()?
SyncAll ==
    /\ wPc = "sync_all"
    /\ \/ /\ wSynced' = TRUE
          /\ wFs' = wFs
          /\ wPc' = "persist"
       \/ /\ \E unlinked \in BOOLEAN :
                wFs' = DropTempFile(wFs, TempFileName, <<>>, 0, unlinked)
          /\ wSynced' = FALSE
          /\ wPc' = "err"
    /\ UNCHANGED <<wStaged, wCreated, wChunks, wBuf, wBefore>>
    /\ UNCHANGED nonWrVars

\* tmp.persist(path).map_err(|e| e.error)?
Persist ==
    /\ wPc = "persist"
    /\ \/ /\ wFs' = PersistRename(wFs, TempFileName, DestName)
          /\ wPc' = "sync_dir"
       \/ /\ \E unlinked \in BOOLEAN :
                wFs' = DropTempFile(wFs, TempFileName, <<>>, 0, unlinked)
          /\ wPc' = "err"
    /\ UNCHANGED <<wStaged, wCreated, wChunks, wBuf, wSynced, wBefore>>
    /\ UNCHANGED nonWrVars

\* The fsync of the parent directory, whose errors are ignored; Ok(()).
SyncDir ==
    /\ wPc = "sync_dir"
    /\ wPc' = "ok"
    /\ UNCHANGED <<wFs, wStaged, wCreated, wChunks, wBuf, wSynced, wBefore>>
    /\ UNCHANGED nonWrVars

WriteNext ==
    CreateDirAll \/ NewTempFile \/ EncodeIndex \/ WriteAll \/ Flush \/ SyncAll \/ Persist
    \/ SyncDir

SpecWrite == WriteInit /\ [][WriteNext]_vars

(***************************************************************************)
(* Specification of the daemon's hot swap: client threads handle Query     *)
(* requests (rpc.rs handle_client) while other threads call swap_index.    *)
(* Every step is one atomic operation on the RwLock or on an Arc.          *)
(***************************************************************************)
Clients == {"c1", "c2"}

Swappers == {"s1", "s2"}

\* The number of swap_index calls in a run, and the number of reads of the
\* index one query makes.
MaxSwaps == 2

QueryReads == 2

\* No Arc held: Option<Arc<Index>>::None.
NoArc == [some |-> FALSE, val |-> 0]

\* DaemonState::new: the index opened at start, in a fresh Arc in the lock.
SwapInit ==
    /\ swCurrent = 0
    /\ swStrong = [i \in 0..MaxSwaps |-> IF i = 0 THEN 1 ELSE 0]
    /\ swMapped = {0}
    /\ swReaders = {}
    /\ swWriter = "none"
    /\ swInstalled = <<0>>
    /\ swReturned = 1
    /\ clients = [c \in Clients |->
                     [pc |-> "idle", handle |-> NoArc, floor |-> 0, reads |-> <<>>]]
    /\ swappers = [s \in Swappers |-> [pc |-> "idle", new |-> NoArc]]
    /\ NonSwapIdle

\* handle_client receives DaemonRequest::Query and calls current_index.
ReceiveQuery ==
    \E c \in Clients :
        /\ clients[c].pc = "idle"
        /\ clients' = [clients EXCEPT ![c] = [pc |-> "read", handle |-> NoArc,
                                              floor |-> swReturned, reads |-> <<>>]]
        /\ UNCHANGED <<swCurrent, swStrong, swMapped, swReaders, swWriter, swInstalled,
                       swReturned, swappers>>
        /\ UNCHANGED nonSwVars

\* current_index: self.index.read()
ReadLock ==
    \E c \in Clients :
        /\ clients[c].pc = "read"
        /\ swWriter = "none"
        /\ swReaders' = swReaders \cup {c}
        /\ clients' = [clients EXCEPT ![c].pc = "clone"]
        /\ UNCHANGED <<swCurrent, swStrong, swMapped, swWriter, swInstalled, swReturned,
                       swappers>>
        /\ UNCHANGED nonSwVars

\* current_index: .clone() of the Arc behind the read guard
CloneHandle ==
    \E c \in Clients :
        /\ clients[c].pc = "clone"
        /\ swStrong' = ArcClone(swStrong, swCurrent)
        /\ clients' = [clients EXCEPT ![c].pc = "unlock", ![c].handle = Some(swCurrent)]
        /\ UNCHANGED <<swCurrent, swMapped, swReaders, swWriter, swInstalled, swReturned,
                       swappers>>
        /\ UNCHANGED nonSwVars

\* current_index returns: the read guard is dropped.
ReadUnlock ==
    \E c \in Clients :
        /\ clients[c].pc = "unlock"
        /\ swReaders' = swReaders \ {c}
        /\ clients' = [clients EXCEPT ![c].pc = "query"]
        /\ UNCHANGED <<swCurrent, swStrong, swMapped, swWriter, swInstalled, swReturned,
                       swappers>>
        /\ UNCHANGED nonSwVars

\* execute_query(&*handle, ..): one read of the index through the handle.
QueryRead ==
    \E c \in Clients :
        /\ clients[c].pc = "query"
        /\ Len(clients[c].reads) < QueryReads
        /\ \E found \in ReadThrough(swMapped, clients[c].handle.val) :
              clients' = [clients EXCEPT ![c].reads = Append(@, found)]
        /\ UNCHANGED <<swCurrent, swStrong, swMapped, swReaders, swWriter, swInstalled,
                       swReturned, swappers>>
        /\ UNCHANGED nonSwVars

\* The match on the query's result ends: the handle is dropped and the
\* response is written.
ReleaseHandle ==
    \E c \in Clients :
        /\ clients[c].pc = "query"
        /\ Len(clients[c].reads) = QueryReads
        /\ swStrong' = ArcDropCount(swStrong, clients[c].handle.val)
        /\ swMapped' = ArcDropMapped(swStrong, swMapped, clients[c].handle.val)
        /\ clients' = [clients EXCEPT ![c].pc = "idle", ![c].handle = NoArc]
        /\ UNCHANGED <<swCurrent, swReaders, swWriter, swInstalled, swReturned, swappers>>
        /\ UNCHANGED nonSwVars

\* swap_index(new_index): Arc::new(new_index), evaluated before the lock is
\* taken.
NewArc ==
    \E s \in Swappers :
        /\ swappers[s].pc = "idle"
        /\ \E id \in 1..MaxSwaps :
              /\ id \notin swMapped
              /\ swStrong[id] = 0
              /\ \A i \in 1..Len(swInstalled) : swInstalled[i] < id
              /\ \A t \in Swappers : swappers[t].new.some => swappers[t].new.val < id
              /\ swStrong' = [swStrong EXCEPT ![id] = 1]
              /\ swMapped' = swMapped \cup {id}
              /\ swappers' = [swappers EXCEPT ![s] = [pc |-> "write", new |-> Some(id)]]
        /\ UNCHANGED <<swCurrent, swReaders, swWriter, swInstalled, swReturned, clients>>
        /\ UNCHANGED nonSwVars

\* swap_index: self.index.write()
WriteLock ==
    \E s \in Swappers :
        /\ swappers[s].pc = "write"
        /\ swWriter = "none"
        /\ swReaders = {}
        /\ swWriter' = s
        /\ swappers' = [swappers EXCEPT ![s].pc = "assign"]
        /\ UNCHANGED <<swCurrent, swStrong, swMapped, swReaders, swInstalled, swReturned,
                       clients>>
        /\ UNCHANGED nonSwVars

\* swap_index: the assignment through the write guard drops the Arc that was
\* in the lock and stores the new one.
AssignIndex ==
    \E s \in Swappers :
        /\ swappers[s].pc = "assign"
        /\ swStrong' = ArcDropCount(swStrong, swCurrent)
        /\ swMapped' = ArcDropMapped(swStrong, swMapped, swCurrent)
        /\ swCurrent' = swappers[s].new.val
        /\ swInstalled' = Append(swInstalled, swappers[s].new.val)
        /\ swappers' = [swappers EXCEPT ![s].pc = "unlock"]
        /\ UNCHANGED <<swReaders, swWriter, swReturned, clients>>
        /\ UNCHANGED nonSwVars

\* swap_index returns: the write guard is dropped.
WriteUnlock ==
    \E s \in Swappers :
        /\ swappers[s].pc = "unlock"
        /\ swWriter' = "none"
        /\ swReturned' = Max(swReturned, PositionIn(swInstalled, swappers[s].new.val))
        /\ swappers' = [swappers EXCEPT ![s] = [pc |-> "idle", new |-> NoArc]]
        /\ UNCHANGED <<swCurrent, swStrong, swMapped, swReaders, swInstalled, clients>>
        /\ UNCHANGED nonSwVars

SwapNext ==
    \/ ReceiveQuery \/ ReadLock \/ CloneHandle \/ ReadUnlock \/ QueryRead \/ ReleaseHandle
    \/ NewArc \/ WriteLock \/ AssignIndex \/ WriteUnlock

SpecSwap == SwapInit /\ [][SwapNext]_vars

(***************************************************************************)
(* Specification of walk_parallel: num_threads workers take directories    *)
(* from the work channel, scan them, queue their subdirectories and send   *)
(* batches of records on the output channel, which is unbounded and whose  *)
(* receiver lives until every sender is dropped (build_index_from_scan).   *)
(* Every step is one channel operation, one operation on the atomic        *)
(* counter, or thread-local work.                                          *)
(***************************************************************************)
MaxThreads == 2

WalkWorkers == 1..MaxThreads

Str_a_txt == <<97, 46, 116, 120, 116>>                \* "a.txt"

\* The record inspect_fs_entry builds for an entry.
WalkRecord(comps, kind, ignored) ==
    [Record(comps, NoExt, 0, 100, kind) EXCEPT !.ignored_glob = ignored]

\* A directory entry: the record inspect_fs_entry returns for it, or none
\* when it returns Ok(None) or an error (a name that is not UTF-8, a failed
\* metadata call).
Inspected(rec) == [some |-> TRUE, rec |-> rec]

NotInspected(n) == [some |-> FALSE, rec |-> n]

Dir_project == Root.comps
Dir_src == UnderRoot(<<Str_src>>)
Dir_bin == UnderRoot(<<Str_src, Str_bin>>)
Dir_lib == UnderRoot(<<Str_src, Str_lib>>)
Dir_target == UnderRoot(<<Str_target>>)
Dir_etc == <<Str_etc>>

\* The file system walked: per directory, whether read_dir succeeds and the
\* entries it yields.  target is ignored by a pattern, lib cannot be read.
WalkFs ==
    (Dir_project :> [readable |-> TRUE,
                     entries |-> {Inspected(WalkRecord(Dir_src, "dir", FALSE)),
                                  Inspected(WalkRecord(Dir_target, "dir", TRUE)),
                                  NotInspected(1)}])
    @@ (Dir_src :> [readable |-> TRUE,
                    entries |-> {Inspected(WalkRecord(UnderRoot(<<Str_src, Str_query_rs>>), "file", FALSE)),
                                 Inspected(WalkRecord(Dir_bin, "dir", FALSE)),
                                 Inspected(WalkRecord(Dir_lib, "dir", FALSE))}])
    @@ (Dir_bin :> [readable |-> TRUE, entries |-> {}])
    @@ (Dir_lib :> [readable |-> FALSE,
                    entries |-> {Inspected(WalkRecord(UnderRoot(<<Str_src, Str_lib, Str_a_txt>>), "file", FALSE))}])
    @@ (Dir_target :> [readable |-> TRUE,
                       entries |-> {Inspected(WalkRecord(UnderRoot(<<Str_target, Str_q>>), "file", FALSE))}])
    @@ (Dir_etc :> [readable |-> TRUE,
                    entries |-> {Inspected(WalkRecord(<<Str_etc, Str_hosts>>, "file", FALSE))}])

WalkRootChoices == {<<>>, <<Dir_project>>, <<Dir_project, Dir_etc>>}

NoEntry == NotInspected(0)

\* A worker at the top of worker_loop with an empty batch.
FreshWorker == [pc |-> "recv", dir |-> <<>>, todo |-> {}, cur |-> NoEntry, batch |-> <<>>]

\* walk_parallel up to the spawn of the workers: pending is roots.len() and
\* the roots are in the work channel.
WalkInit ==
    /\ wkRoots \in WalkRootChoices
    /\ wkThreads \in 1..MaxThreads
    /\ wkQueue = wkRoots
    /\ wkPending = Len(wkRoots)
    /\ wkWorkers = [w \in 1..wkThreads |-> FreshWorker]
    /\ wkOut = <<>>
    /\ wkMain = "running"
    /\ NonWalkIdle

\* work_rx.recv_timeout returns Ok(dir); scan_dir_parallel calls read_dir,
\* which fails or yields the entries in an order of its own.
RecvDir(w) ==
    /\ w \in DOMAIN wkWorkers
    /\ wkWorkers[w].pc = "recv"
    /\ wkQueue # <<>>
    /\ wkQueue' = Tail(wkQueue)
    /\ wkWorkers' = [wkWorkers EXCEPT ![w].pc = "scan",
                                      ![w].dir = Head(wkQueue),
                                      ![w].todo = IF WalkFs[Head(wkQueue)].readable
                                                  THEN WalkFs[Head(wkQueue)].entries
                                                  ELSE {}]
    /\ UNCHANGED <<wkRoots, wkThreads, wkPending, wkOut, wkMain>>
    /\ UNCHANGED nonWkVars

\* recv_timeout returns Err(Timeout): no directory arrived within 50 ms.
RecvTimeout(w) ==
    /\ w \in DOMAIN wkWorkers
    /\ wkWorkers[w].pc = "recv"
    /\ wkQueue = <<>>
    /\ wkWorkers' = [wkWorkers EXCEPT ![w].pc = "check"]
    /\ UNCHANGED <<wkRoots, wkThreads, wkQueue, wkPending, wkOut, wkMain>>
    /\ UNCHANGED nonWkVars

\* The timeout branch without the load of pending: the worker leaves its loop
\* whenever the work channel stays empty for 50 ms.
BreakOnTimeout(w) ==
    /\ w \in DOMAIN wkWorkers
    /\ wkWorkers[w].pc = "check"
    /\ wkWorkers' = [wkWorkers EXCEPT ![w].pc = "flush"]
    /\ UNCHANGED <<wkRoots, wkThreads, wkQueue, wkPending, wkOut, wkMain>>
    /\ UNCHANGED nonWkVars

\* if pending.load(Acquire) == 0 { break }
CheckPending(w) ==
    /\ w \in DOMAIN wkWorkers
    /\ wkWorkers[w].pc = "check"
    /\ wkWorkers' = [wkWorkers EXCEPT ![w].pc = IF wkPending = 0 THEN "flush" ELSE "recv"]
    /\ UNCHANGED <<wkRoots, wkThreads, wkQueue, wkPending, wkOut, wkMain>>
    /\ UNCHANGED nonWkVars

\* An entry for which inspect_fs_entry gives Ok(None) or an error.
SkipEntry(w) ==
    /\ w \in DOMAIN wkWorkers
    /\ wkWorkers[w].pc = "scan"
    /\ \E e \in wkWorkers[w].todo :
          /\ ~e.some
          /\ wkWorkers' = [wkWorkers EXCEPT ![w].todo = @ \ {e}]
    /\ UNCHANGED <<wkRoots, wkThreads, wkQueue, wkPending, wkOut, wkMain>>
    /\ UNCHANGED nonWkVars

\* An entry that is not recursed into: batch.push(outcome).
PushEntry(w) ==
    /\ w \in DOMAIN wkWorkers
    /\ wkWorkers[w].pc = "scan"
    /\ \E e \in wkWorkers[w].todo :
          /\ e.some
          /\ ~should_recurse(e.rec)
          /\ wkWorkers' = [wkWorkers EXCEPT ![w].todo = @ \ {e},
                                            ![w].batch = Append(@, e.rec)]
    /\ UNCHANGED <<wkRoots, wkThreads, wkQueue, wkPending, wkOut, wkMain>>
    /\ UNCHANGED nonWkVars

\* A subdirectory to recurse into: pending.fetch_add(1, AcqRel).
CountSubdir(w) ==
    /\ w \in DOMAIN wkWorkers
    /\ wkWorkers[w].pc = "scan"
    /\ \E e \in wkWorkers[w].todo :
          /\ e.some
          /\ should_recurse(e.rec)
          /\ wkWorkers' = [wkWorkers EXCEPT ![w].todo = @ \ {e},
                                            ![w].cur = e,
                                            ![w].pc = "send_dir"]
    /\ wkPending' = wkPending + 1
    /\ UNCHANGED <<wkRoots, wkThreads, wkQueue, wkOut, wkMain>>
    /\ UNCHANGED nonWkVars

\* work_tx.send(outcome.full_path.clone()); batch.push(outcome)
QueueSubdir(w) ==
    /\ w \in DOMAIN wkWorkers
    /\ wkWorkers[w].pc = "send_dir"
    /\ wkQueue' = Append(wkQueue, wkWorkers[w].cur.rec.full_path.comps)
    /\ wkWorkers' = [wkWorkers EXCEPT ![w].batch = Append(@, wkWorkers[w].cur.rec),
                                      ![w].cur = NoEntry,
                                      ![w].pc = "scan"]
    /\ UNCHANGED <<wkRoots, wkThreads, wkPending, wkOut, wkMain>>
    /\ UNCHANGED nonWkVars

\* scan_dir_parallel has returned: the batch is sent if it is full.
SendIfFull(w) ==
    /\ w \in DOMAIN wkWorkers
    /\ wkWorkers[w].pc = "scan"
    /\ wkWorkers[w].todo = {}
    /\ IF Len(wkWorkers[w].batch) >= BATCH_SIZE
       THEN /\ wkOut' = Append(wkOut, wkWorkers[w].batch)
            /\ wkWorkers' = [wkWorkers EXCEPT ![w].batch = <<>>, ![w].pc = "dec"]
       ELSE /\ wkOut' = wkOut
            /\ wkWorkers' = [wkWorkers EXCEPT ![w].pc = "dec"]
    /\ UNCHANGED <<wkRoots, wkThreads, wkQueue, wkPending, wkMain>>
    /\ UNCHANGED nonWkVars

\* if pending.fetch_sub(1, AcqRel) == 1 { break }
DecrementPending(w) ==
    /\ w \in DOMAIN wkWorkers
    /\ wkWorkers[w].pc = "dec"
    /\ wkPending' = wkPending - 1
    /\ wkWorkers' = [wkWorkers EXCEPT ![w].pc = IF wkPending = 1 THEN "flush" ELSE "recv",
                                      ![w].dir = <<>>]
    /\ UNCHANGED <<wkRoots, wkThreads, wkQueue, wkOut, wkMain>>
    /\ UNCHANGED nonWkVars

\* After the loop: the remaining records are sent and the worker returns.
FlushBatch(w) ==
    /\ w \in DOMAIN wkWorkers
    /\ wkWorkers[w].pc = "flush"
    /\ wkOut' = IF wkWorkers[w].batch # <<>> THEN Append(wkOut, wkWorkers[w].batch) ELSE wkOut
    /\ wkWorkers' = [wkWorkers EXCEPT ![w].batch = <<>>, ![w].pc = "done"]
    /\ UNCHANGED <<wkRoots, wkThreads, wkQueue, wkPending, wkMain>>
    /\ UNCHANGED nonWkVars

\* thread::scope returns once every worker has returned.
JoinWorkers ==
    /\ wkMain = "running"
    /\ \A w \in DOMAIN wkWorkers : wkWorkers[w].pc = "done"
    /\ wkMain' = "returned"
    /\ UNCHANGED <<wkRoots, wkThreads, wkQueue, wkPending, wkWorkers, wkOut>>
    /\ UNCHANGED nonWkVars

worker_loop(w) ==
    \/ RecvDir(w) \/ RecvTimeout(w) \/ CheckPending(w)
    \/ SkipEntry(w) \/ PushEntry(w) \/ CountSubdir(w) \/ QueueSubdir(w)
    \/ SendIfFull(w) \/ DecrementPending(w) \/ FlushBatch(w)

WalkNext == (\E w \in WalkWorkers : worker_loop(w)) \/ JoinWorkers

SpecWalk == WalkInit /\ [][WalkNext]_vars

\* Every spawned thread keeps being scheduled, and a recv_timeout returns
\* after 50 ms at the latest.
WalkFairness ==
    /\ \A w \in WalkWorkers : WF_vars(worker_loop(w))
    /\ WF_vars(JoinWorkers)

SpecWalkLive == WalkInit /\ [][WalkNext]_vars /\ WalkFairness
(***************************************************************************)
(* Specification of the evaluator: an index is built, written and opened,  *)
(* and one expression is evaluated, or one query string run, against it.   *)
(***************************************************************************)
QueryInit ==
    /\ \E recs \in QueryCorpora, created_secs \in ClockValues :
          /\ qRecs = recs
          /\ qIndex = OpenedIndexOf(recs, created_secs)
    /\ qChecks \in BOOLEAN
    /\ qNow \in NowValues
    /\ qOp = "none"
    /\ qExpr = <<>>
    /\ qCands = <<>>
    /\ qOut = <<>>
    /\ qText = <<>>
    /\ qLimit = 0
    /\ qRun = <<>>
    /\ NonQueryIdle

\* QueryEngine::eval_expr
EvalExpr ==
    \E expr \in ExprUniverse, candidates \in CandidateSets(get_file_count(qIndex)),
       pick \in Picks, keep_ties \in BOOLEAN :
        /\ qOp = "none"
        /\ qOp' = "eval_expr"
        /\ qExpr' = expr
        /\ qCands' = candidates
        /\ qOut' = eval_expr(qIndex, expr, candidates, qNow, Env(qChecks, pick, keep_ties))
        /\ UNCHANGED <<qIndex, qRecs, qChecks, qNow, qText, qLimit, qRun>>
        /\ UNCHANGED nonQVars

\* QueryEngine::eval_query
EvalQuery ==
    \E expr \in ExprUniverse, pick \in Picks, keep_ties \in BOOLEAN :
        /\ qOp = "none"
        /\ qOp' = "eval_query"
        /\ qExpr' = expr
        /\ qCands' = AllFileIds(qIndex)
        /\ qOut' = eval_query(qIndex, Query(expr), qNow, Env(qChecks, pick, keep_ties))
        /\ UNCHANGED <<qIndex, qRecs, qChecks, qNow, qText, qLimit, qRun>>
        /\ UNCHANGED nonQVars

\* Index::run_query
RunQuery ==
    \E query \in QueryStrings, limit \in QueryLimits, pick \in Picks, keep_ties \in BOOLEAN,
       history_available \in BOOLEAN :
        /\ qOp = "none"
        /\ qOp' = "run_query"
        /\ qText' = query
        /\ qLimit' = limit
        /\ qRun' = run_query(qIndex, query, limit, qNow, Env(qChecks, pick, keep_ties),
                             history_available)
        /\ UNCHANGED <<qIndex, qRecs, qChecks, qNow, qExpr, qCands, qOut>>
        /\ UNCHANGED nonQVars

QueryNext == EvalExpr \/ EvalQuery \/ RunQuery

SpecQuery == QueryInit /\ [][QueryNext]_vars
(***************************************************************************)
(* Specification of the stages that follow the evaluation: an index is     *)
(* built, written and opened, and apply_path_order_filter or rank is       *)
(* called with a parsed query and a vector of hits.  Neither stage does    *)
(* arithmetic that the overflow checks of the build could stop.            *)
(***************************************************************************)
Str_proj == <<112, 114, 111, 106>>                    \* "proj"
Str_ject == <<106, 101, 99, 116>>                     \* "ject"
Str_r == <<114>>                                      \* "r"

RankCorpora == {Corpus_sources, Corpus_project}

\* The expressions of the queries handed to the two stages.
RankExprs ==
    {And(<<>>),
     Txt(Str_query),
     And(<<Txt(Str_query), ExtIs(Str_rs)>>),
     And(<<Txt(Str_src), Txt(Str_query)>>),
     And(<<Txt(Str_query), Txt(Str_src)>>),
     And(<<Txt(Str_proj), Txt(Str_ject)>>),
     And(<<Txt(Str_query), Txt(Str_r)>>),
     And(<<Txt(Str_src_QUERY), Not(Txt(Str_zzz)), Txt(Str_md)>>),
     Or(<<And(<<Txt(Str_main), Txt(Str_rs)>>), Txt(Str_zzz)>>),
     Or(<<Txt(Str_q), Txt(Str_main)>>),
     Not(And(<<Txt(Str_query), Txt(Str_runner)>>))}

\* The hits: strictly ascending vectors of FileIds of an index of n files,
\* as the evaluator returns them.
RankHitSets(n) ==
    IF n <= 5 THEN {SetToSeq(S) : S \in SUBSET (0..(n - 1))} ELSE CandidateSets(n)

NoLimit == [some |-> FALSE, val |-> 0]

RankLimits == {NoLimit, Some(0), Some(1), Some(2), Some(10)}

RankInit ==
    /\ \E recs \in RankCorpora, created_secs \in ClockValues \ {0} :
          /\ qRecs = recs
          /\ qIndex = OpenedIndexOf(recs, created_secs)
    /\ qChecks = FALSE
    /\ qNow \in NowValues
    /\ qOp = "none"
    /\ qExpr = <<>>
    /\ qCands = <<>>
    /\ qOut = <<>>
    /\ qText = <<>>
    /\ qLimit = NoLimit
    /\ qRun = <<>>
    /\ NonQueryIdle

\* apply_path_order_filter
PathOrderFilter ==
    \E expr \in RankExprs, hits \in RankHitSets(get_file_count(qIndex)) :
        /\ qOp = "none"
        /\ qOp' = "apply_path_order_filter"
        /\ qExpr' = expr
        /\ qCands' = hits
        /\ qOut' = apply_path_order_filter(qIndex, Query(expr), hits)
        /\ UNCHANGED <<qIndex, qRecs, qChecks, qNow, qText, qLimit, qRun>>
        /\ UNCHANGED nonQVars

\* rank
Rank ==
    \E expr \in RankExprs, hits \in RankHitSets(get_file_count(qIndex)),
       limit \in RankLimits, keep_ties \in BOOLEAN :
        /\ qOp = "none"
        /\ qOp' = "rank"
        /\ qExpr' = expr
        /\ qCands' = hits
        /\ qLimit' = limit
        /\ qOut' = rank(qIndex, Query(expr), hits, qNow, limit, Env(qChecks, "first", keep_ties))
        /\ UNCHANGED <<qIndex, qRecs, qChecks, qNow, qText, qRun>>
        /\ UNCHANGED nonQVars

RankNext == PathOrderFilter \/ Rank

SpecRank == RankInit /\ [][RankNext]_vars
(***************************************************************************)
(* Specification of the parser alone: parse_query is called once on a      *)
(* query string, in a build that checks integer overflow or in one that    *)
(* does not.  The strings are every sequence of up to MaxPieces pieces     *)
(* over three terms, the keywords and the parentheses, the terms combined  *)
(* with the operators, field atoms of every shape, and strings whose       *)
(* values are quoted, blank or at the ends of the word.                    *)
(***************************************************************************)
MaxPieces == 3

W_foo == <<102, 111, 111>>                                 \* "foo"
W_AND == <<65, 78, 68>>                                    \* "AND"
W_OR == <<79, 82>>                                         \* "OR"
W_NOT == <<78, 79, 84>>                                    \* "NOT"
W_lparen == <<40>>                                         \* "("
W_rparen == <<41>>                                         \* ")"
W_phrase == <<34, 113, 32, 114, 34>>                       \* "\"q r\""
Str_q_r == <<113, 32, 114>>                                \* "q r"
N_xyz == <<120, 121, 122>>                                 \* "xyz"
V_foo_star == <<102, 111, 111, 42>>                        \* "foo*"
V_abc == <<97, 98, 99>>                                    \* "abc"
V_1k == <<49, 107>>                                        \* "1k"
V_7d == <<55, 100>>                                        \* "7d"
V_date == <<50, 48, 50, 51, 45, 49, 49, 45, 48, 49>>       \* "2023-11-01"
O_gt == <<62>>                                             \* ">"
O_gte == <<62, 61>>                                        \* ">="
O_lt == <<60>>                                             \* "<"
O_lte == <<60, 61>>                                        \* "<="
O_eq == <<61>>                                             \* "="
Q_size_quoted_ne == <<115, 105, 122, 101, 58, 34, 33, 61, 53, 34>> \* "size:\"!=5\""
Q_size_ne == <<115, 105, 122, 101, 58, 33, 61, 53>>        \* "size:!=5"
Q_modified_quoted_ne == <<109, 111, 100, 105, 102, 105, 101, 100, 58, 34, 33, 61, 50, 48, 50, 51, 45, 49, 49, 45, 48, 49, 34>> \* "modified:\"!=2023-11-01\""
Q_created_quoted_ne == <<99, 114, 101, 97, 116, 101, 100, 58, 34, 33, 61, 55, 100, 34>> \* "created:\"!=7d\""
Q_modified_min_days == <<109, 111, 100, 105, 102, 105, 101, 100, 58, 45, 45, 50, 49, 52, 55, 52, 56, 51, 54, 52, 56, 100>> \* "modified:--2147483648d"
Q_created_quoted_min == <<99, 114, 101, 97, 116, 101, 100, 58, 34, 60, 45, 45, 50, 49, 52, 55, 52, 56, 51, 54, 52, 56, 104, 34>> \* "created:\"<--2147483648h\""
Q_modified_max_days == <<109, 111, 100, 105, 102, 105, 101, 100, 58, 45, 50, 49, 52, 55, 52, 56, 51, 54, 52, 55, 100>> \* "modified:-2147483647d"
Q_blank == <<32, 32>>
Q_tab_newline == <<9, 10>>

Str_space == <<32>>

\* The terms a query is combined from: a word, a predicate and a phrase,
\* each with the leaf it stands for.
QueryTerms ==
    {[text |-> W_foo, leaf |-> Txt(W_foo)],
     [text |-> Q_ext_rs, leaf |-> ExtIs(Str_rs)],
     [text |-> W_phrase, leaf |-> TextLeaf(TextTerm(Str_q_r, TRUE, FALSE))]}

TermTexts == {t.text : t \in QueryTerms}

Pieces == TermTexts \cup {W_AND, W_OR, W_NOT, W_lparen, W_rparen}

\* The pieces of a query separated by single spaces.
QueryText(pieces) == JoinWith(pieces, Str_space)

PieceQueries == {QueryText(ws) : ws \in UNION {[1..n -> Pieces] : n \in 0..MaxPieces}}

\* Three terms under each combination of the operators, with AND written
\* out and left out.
CombinedQueries ==
    {QueryText(ws) : ws \in UNION {
        {<<a, W_OR, b, W_AND, c>>, <<a, W_OR, b, c>>,
         <<a, W_AND, b, W_OR, c>>, <<a, b, W_OR, c>>,
         <<a, W_AND, b, W_AND, c>>, <<a, W_AND, b, c>>,
         <<W_NOT, a, W_AND, b, W_OR, c>>, <<W_NOT, a, b, W_OR, c>>,
         <<a, W_OR, W_NOT, b, W_AND, W_NOT, c>>, <<a, W_OR, W_NOT, b, W_NOT, c>>,
         <<W_lparen, a, W_OR, b, W_rparen, W_AND, c>>, <<W_lparen, a, W_OR, b, W_rparen, c>>}
        : a \in TermTexts, b \in TermTexts, c \in TermTexts}}

\* Field atoms name:value, with and without an operator before the value.
AtomNames == {N_xyz, Str_size, Str_modified, Str_ext}

AtomOperators == {<<>>, O_gt, O_gte, O_lt, O_lte, O_eq}

AtomValues == {<<>>, V_foo_star, V_abc, V_1k, V_7d, V_date}

FieldAtoms == [name : AtomNames, op : AtomOperators, value : AtomValues]

AtomText(atom) == atom.name \o <<58>> \o atom.op \o atom.value

AtomQueries == {AtomText(atom) : atom \in FieldAtoms}

EdgeQueries ==
    {Q_size_quoted_ne, Q_size_ne, Q_modified_quoted_ne, Q_created_quoted_ne,
     Q_modified_min_days, Q_created_quoted_min, Q_modified_max_days, Q_blank, Q_tab_newline}

ParseStrings == PieceQueries \cup CombinedQueries \cup AtomQueries \cup EdgeQueries \cup QueryStrings

ParseInit ==
    /\ qText \in ParseStrings
    /\ qChecks \in BOOLEAN
    /\ qOp = "none"
    /\ qOut = <<>>
    /\ qIndex = <<>> /\ qRecs = <<>> /\ qNow = 0
    /\ qExpr = <<>> /\ qCands = <<>> /\ qLimit = 0 /\ qRun = <<>>
    /\ NonQueryIdle

\* parse_query
ParseQuery ==
    /\ qOp = "none"
    /\ qOp' = "parse_query"
    /\ qOut' = parse_query(qText, qChecks)
    /\ UNCHANGED <<qIndex, qRecs, qChecks, qNow, qExpr, qCands, qText, qLimit, qRun>>
    /\ UNCHANGED nonQVars

ParseNext == ParseQuery

SpecParse == ParseInit /\ [][ParseNext]_vars
(***************************************************************************)
(* Specification of parse_size alone: it is called once on a size literal, *)
(* a decimal number followed by a unit.  The units are every prefix of the *)
(* table, in each case, and two letters outside it, alone or followed by   *)
(* 'b' or 'B'.                                                             *)
(***************************************************************************)
MaxSizeNumber == 9

\* The decimal digits of n.
RECURSIVE Decimal(_)
Decimal(n) == IF n < 10 THEN <<48 + n>> ELSE Decimal(n \div 10) \o <<48 + (n % 10)>>

SizeNumbers == 0..MaxSizeNumber \cup {64, 1000, 1024, 2097151, 2097152, U32_MAX}

\* "", k, K, m, M, g, G, t, T, ki, Ki, kI, KI, mi, Mi, gi, Gi, ti, Ti, x, X
UnitPrefixes ==
    {<<>>, <<107>>, <<75>>, <<109>>, <<77>>, <<103>>, <<71>>, <<116>>, <<84>>,
     <<107, 105>>, <<75, 105>>, <<107, 73>>, <<75, 73>>, <<109, 105>>, <<77, 105>>,
     <<103, 105>>, <<71, 105>>, <<116, 105>>, <<84, 105>>, <<120>>, <<88>>}

\* "", b, B
UnitSuffixes == {<<>>, <<98>>, <<66>>}

SizeUnits == {p \o s : p \in UnitPrefixes, s \in UnitSuffixes}

SizeLiteral(num, unit) == Decimal(num) \o unit

SizeInit ==
    /\ \E num \in SizeNumbers, unit \in SizeUnits : qText = SizeLiteral(num, unit)
    /\ qChecks = FALSE
    /\ qOp = "none"
    /\ qOut = <<>>
    /\ qIndex = <<>> /\ qRecs = <<>> /\ qNow = 0
    /\ qExpr = <<>> /\ qCands = <<>> /\ qLimit = 0 /\ qRun = <<>>
    /\ NonQueryIdle

\* parse_size
ParseSize ==
    /\ qOp = "none"
    /\ qOp' = "parse_size"
    /\ qOut' = parse_size(qText)
    /\ UNCHANGED <<qIndex, qRecs, qChecks, qNow, qExpr, qCands, qText, qLimit, qRun>>
    /\ UNCHANGED nonQVars

SizeNext == ParseSize

SpecSize == SizeInit /\ [][SizeNext]_vars
(***************************************************************************)
(* Specification of the two trigram builders: both are called once on the  *)
(* same string of up to MaxTextLen bytes, lower-case and upper-case        *)
(* letters and a separator among them.                                     *)
(***************************************************************************)
MaxTextLen == 7

\* 'a', 'b', 'B', '/'
TextBytes == {97, 98, 66, 47}

TrigramTexts == UNION {[1..n -> TextBytes] : n \in 0..MaxTextLen}

TrigramInit ==
    /\ qText \in TrigramTexts
    /\ qChecks = FALSE
    /\ qOp = "none"
    /\ qOut = <<>>
    /\ qIndex = <<>> /\ qRecs = <<>> /\ qNow = 0
    /\ qExpr = <<>> /\ qCands = <<>> /\ qLimit = 0 /\ qRun = <<>>
    /\ NonQueryIdle

\* build_query_trigrams and build_trigrams_for_string on the same string
BuildTrigrams ==
    /\ qOp = "none"
    /\ qOp' = "build_trigrams"
    /\ qOut' = [query |-> build_query_trigrams(qText),
                full |-> build_trigrams_for_string(qText)]
    /\ UNCHANGED <<qIndex, qRecs, qChecks, qNow, qExpr, qCands, qText, qLimit, qRun>>
    /\ UNCHANGED nonQVars

TrigramNext == BuildTrigrams

SpecTrigram == TrigramInit /\ [][TrigramNext]_vars
(***************************************************************************)
(* Specification of the text side of the evaluator: an index is built,     *)
(* written and opened, and then the cost of one text term is estimated and *)
(* the term evaluated, or one conjunction is evaluated, on a candidate     *)
(* set.  The terms name files, directories, a hidden file, a part of the   *)
(* index root and nothing at all.                                          *)
(***************************************************************************)
Str_docs_main == <<100, 111, 99, 115, 47, 109, 97, 105, 110>> \* "docs/main"

\* A hidden file among regular ones.
Corpus_hidden == <<Rec_README_md, Rec_env, Rec_query_rs, Rec_main_rs>>

TextCorpora == {Corpus_project, Corpus_sources, Corpus_hidden}

TextTerms ==
    {TextTerm(text, FALSE, FALSE) :
        text \in {Str_query, Str_main, Str_runner, Str_q, Str_zzz, Str_src_QUERY, Str_src,
                  Str_project, Str_bin, Str_env, Str_docs_main}}

Conjunctions ==
    {And(<<>>),
     And(<<Txt(Str_query)>>),
     And(<<Txt(Str_query), Txt(Str_src)>>),
     And(<<Txt(Str_src), Txt(Str_query)>>),
     And(<<Txt(Str_main), Txt(Str_rs)>>),
     And(<<Txt(Str_query), Txt(Str_zzz)>>),
     And(<<Txt(Str_query), Txt(Str_project)>>),
     And(<<Txt(Str_query), Txt(Str_runner), Txt(Str_rs)>>),
     And(<<Txt(Str_query), ExtIs(Str_rs)>>),
     And(<<ExtIs(Str_md), Txt(Str_query)>>),
     And(<<ExtIs(Str_rs), Not(Txt(Str_main))>>),
     And(<<Txt(Str_query), Txt(Str_runner), LargerThan1000>>),
     And(<<Not(Txt(Str_query)), Not(ExtIs(Str_md))>>),
     And(<<Or(<<Txt(Str_main), Txt(Str_query)>>), ExtIs(Str_rs)>>),
     And(<<LongTerm, ExtIs(Str_rs)>>)}

TextInit ==
    /\ \E recs \in TextCorpora, created_secs \in ClockValues \ {0} :
          /\ qRecs = recs
          /\ qIndex = OpenedIndexOf(recs, created_secs)
    /\ qChecks \in BOOLEAN
    /\ qNow \in NowValues
    /\ qOp = "none"
    /\ qExpr = <<>>
    /\ qCands = <<>>
    /\ qOut = <<>>
    /\ qText = <<>>
    /\ qLimit = 0
    /\ qRun = <<>>
    /\ NonQueryIdle

\* estimate_text_term_cost and eval_text_term for the same term; qLimit
\* holds the cost.
EvalTextTerm ==
    \E term \in TextTerms, candidates \in CandidateSets(get_file_count(qIndex)),
       pick \in Picks, keep_ties \in BOOLEAN :
        /\ qOp = "none"
        /\ qOp' = "eval_text_term"
        /\ qExpr' = TextLeaf(term)
        /\ qCands' = candidates
        /\ qLimit' = estimate_text_term_cost(qIndex, term)
        /\ qOut' = eval_text_term(qIndex, term, candidates, Env(qChecks, pick, keep_ties))
        /\ UNCHANGED <<qIndex, qRecs, qChecks, qNow, qText, qRun>>
        /\ UNCHANGED nonQVars

\* QueryEngine::eval_expr on And(children)
EvalAnd ==
    \E expr \in Conjunctions, candidates \in CandidateSets(get_file_count(qIndex)),
       pick \in Picks, keep_ties \in BOOLEAN :
        /\ qOp = "none"
        /\ qOp' = "eval_and"
        /\ qExpr' = expr
        /\ qCands' = candidates
        /\ qOut' = eval_expr(qIndex, expr, candidates, qNow, Env(qChecks, pick, keep_ties))
        /\ UNCHANGED <<qIndex, qRecs, qChecks, qNow, qText, qLimit, qRun>>
        /\ UNCHANGED nonQVars

TextNext == EvalTextTerm \/ EvalAnd

SpecText == TextInit /\ [][TextNext]_vars
(***************************************************************************)
(* Specification of rank over an index large enough for the two-pass       *)
(* branch: twelve regular files whose paths all contain "query", eleven    *)
(* of them modified within the last day and one, the only one named after  *)
(* the query, months ago.                                                  *)
(***************************************************************************)
ManyFiles == 12

\* "a.rs", "b.rs", ...
LetterName(k) == <<96 + k>> \o Str_dot_rs

Rec_recent(k) ==
    Record(UnderRoot(<<Str_query, LetterName(k)>>), Some(Str_rs), 100 * k, 1700000000 + k, "file")

Rec_old_query_rs ==
    Record(UnderRoot(<<Str_src, Str_query_rs>>), Some(Str_rs), 1200, 1690000000, "file")

Corpus_many ==
    [k \in 1..ManyFiles |-> IF k = ManyFiles THEN Rec_old_query_rs ELSE Rec_recent(k)]

ManyExprs ==
    {And(<<>>),
     Txt(Str_query),
     Txt(Str_q),
     And(<<Txt(Str_query), ExtIs(Str_rs)>>),
     Or(<<Txt(Str_query), Txt(Str_src)>>)}

ManyLimits == {NoLimit, Some(1), Some(2), Some(3)}

TwoPassInit ==
    /\ qRecs = Corpus_many
    /\ qIndex = OpenedIndexOf(Corpus_many, 1700001000)
    /\ qChecks \in BOOLEAN
    /\ qNow \in NowValues
    /\ qOp = "none"
    /\ qExpr = <<>>
    /\ qCands = <<>>
    /\ qOut = <<>>
    /\ qText = <<>>
    /\ qLimit = NoLimit
    /\ qRun = <<>>
    /\ NonQueryIdle

\* rank
RankMany ==
    \E expr \in ManyExprs, hits \in CandidateSets(get_file_count(qIndex)),
       limit \in ManyLimits, keep_ties \in BOOLEAN :
        /\ qOp = "none"
        /\ qOp' = "rank"
        /\ qExpr' = expr
        /\ qCands' = hits
        /\ qLimit' = limit
        /\ qOut' = rank(qIndex, Query(expr), hits, qNow, limit, Env(qChecks, "first", keep_ties))
        /\ UNCHANGED <<qIndex, qRecs, qChecks, qNow, qText, qRun>>
        /\ UNCHANGED nonQVars

TwoPassNext == RankMany

SpecTwoPass == TwoPassInit /\ [][TwoPassNext]_vars
(***************************************************************************)
(* Specification of the structural estimator: estimate_cost_simple is      *)
(* applied to a text term of every length up to one past the cap of 40,    *)
(* alone and under the combinators.                                        *)
(***************************************************************************)
MaxCostTermLen == 41

CostTermBytes == {97, 122}

CostTerms == {Rep(c, n) : c \in CostTermBytes, n \in 0..MaxCostTermLen}

CostShapes == {"leaf", "not", "and", "or"}

CostExpr(shape, text) ==
    CASE shape = "leaf" -> Txt(text)
      [] shape = "not" -> Not(Txt(text))
      [] shape = "and" -> And(<<Txt(text), LargerThan1000>>)
      [] shape = "or" -> Or(<<Txt(text)>>)

CostInit ==
    /\ qText \in CostTerms
    /\ qChecks \in BOOLEAN
    /\ qIndex = <<>>
    /\ qRecs = <<>>
    /\ qNow = 0
    /\ qOp = "none"
    /\ qExpr = <<>>
    /\ qCands = <<>>
    /\ qOut = <<>>
    /\ qLimit = NoLimit
    /\ qRun = <<>>
    /\ NonQueryIdle

\* estimate_cost_simple
EstimateCostSimple ==
    \E shape \in CostShapes :
        /\ qOp = "none"
        /\ qOp' = "estimate_cost_simple"
        /\ qExpr' = CostExpr(shape, qText)
        /\ qOut' = estimate_cost_simple(CostExpr(shape, qText), qChecks)
        /\ UNCHANGED <<qIndex, qRecs, qChecks, qNow, qCands, qText, qLimit, qRun>>
        /\ UNCHANGED nonQVars

CostNext == EstimateCostSimple

SpecCost == CostInit /\ [][CostNext]_vars
(***************************************************************************)
(* Claims about the set algebra                                            *)
(***************************************************************************)

\* C8: for all sorted slices a and b, intersect_adaptive(a, b) returns exactly
\* the vector intersect_sorted(a, b) returns, whichever of the linear merge or
\* the galloping search it selects.
C8_AdaptiveEqualsSorted ==
    (setOp = "intersect_adaptive" /\ SortedSeq(setX) /\ SortedSeq(setY))
        => setOut = intersect_sorted(setX, setY)

FileIdOf(i) == i - 1

\* The record is a regular file the default search shows.
VisibleRegular(rec) ==
    /\ ~rec.is_dir /\ ~rec.is_symlink /\ ~rec.is_special
    /\ is_default_visible(compute_file_flags(rec, rec.ignored_glob, rec.user_excludes))

\* The record is a directory, a symlink or a special file, or carries one of
\* the default-invisible flags.
NonRegularOrInvisible(rec) ==
    \/ rec.is_dir \/ rec.is_symlink \/ rec.is_special
    \/ ~is_default_visible(compute_file_flags(rec, rec.ignored_glob, rec.user_excludes))

\* The trigrams of the ASCII-folded bytes of the root-relative path of a record.
RecordTrigrams(rec) ==
    Range(build_trigrams_for_bytes(PathBytes(RelativePath(Root, rec.full_path))))

\* Every posting list of a staged index, by kind.
FileTrigramLists(s) ==
    {PostingList(s.file_trigram_postings, s.file_trigram_keys[k]) :
        k \in 1..Len(s.file_trigram_keys)}

DirTrigramLists(s) ==
    {PostingList(s.dir_trigram_postings, s.dir_trigram_keys[k]) :
        k \in 1..Len(s.dir_trigram_keys)}

ExtLists(s) ==
    {PostingList(s.ext_index_postings, s.ext_index_keys[k]) : k \in 1..Len(s.ext_index_keys)}

\* Every file-trigram posting list of an opened index.
OpenedFileTrigramLists(ix) ==
    {trigram_postings_slice(ix, trigram_keys_at(ix, k)).val : k \in 0..(trigram_keys_len(ix) - 1)}

IndexIsOpen == idxPhase \in {"open", "queried"} /\ index.ok

IndexIsStaged == idxPhase \in {"staged", "written", "failed", "open", "queried", "read"}

\* C4: trigram index completeness.  Once the index has been finished, written
\* and opened, for every default-visible regular-file record added and every
\* trigram of the ASCII-folded bytes of its root-relative path, the slice
\* query_trigram returns for that trigram contains the record's FileId.
C4_TrigramCompleteness ==
    IndexIsOpen =>
        \A i \in 1..Len(added) :
            VisibleRegular(added[i]) =>
                \A t \in RecordTrigrams(added[i]) :
                    LET p == query_trigram(index.index, t)
                    IN p.some /\ FileIdOf(i) \in Range(p.val)

\* A trigram of src/query.rs has been looked up in an opened index of three
\* records in which query.rs is not the first record, and the slice returned
\* holds its FileId.
C4_Witness ==
    /\ idxPhase = "queried"
    /\ Len(added) = 3
    /\ probeTri = TrigramOf(Str_que)
    /\ probeOut.some
    /\ \E i \in 2..3 : added[i] = Rec_query_rs /\ FileIdOf(i) \in Range(probeOut.val)

\* C5: ExtId 0 is reserved for "no extension".  After any sequence of
\* add_record calls on a fresh builder a record has ExtId 0 if and only if it
\* has no extension, and every record with an extension has an ExtId >= 1.
C5_ExtIdZeroReserved ==
    idxPhase = "building" =>
        \A i \in 1..Len(added) :
            /\ (builder.files[i].ext_id = 0) <=> ~added[i].ext.some
            /\ added[i].ext.some => builder.files[i].ext_id >= 1

\* C6: after finish(), every posting list of the staged index (file-trigram,
\* directory-trigram and extension lists) is strictly ascending, hence free
\* of duplicates.
C6_PostingListsStrictlyAscending ==
    IndexIsStaged =>
        \A l \in FileTrigramLists(staged) \cup DirTrigramLists(staged) \cup ExtLists(staged) :
            StrictlyAscending(l)

ReadOutOfRange == idxPhase = "read" /\ probeId >= get_file_count(index.index)

\* C11: for every FileId >= file_count every accessor of the opened index
\* returns without panicking and yields the zero value: the empty string
\* for the name, the extension and the reconstructed path, 0 for the owning
\* directory, the size, the epochs and the depth, and the empty flags.
C11_OutOfRangeZeroValue ==
    ReadOutOfRange =>
        /\ ~probeFile.full_path.panic
        /\ probeFile.full_path.val = <<>>
        /\ probeFile.name = <<>>
        /\ probeFile.ext = <<>>
        /\ probeFile.dir_id = 0
        /\ probeFile.size = 0
        /\ probeFile.modified_epoch = 0
        /\ probeFile.created_epoch = 0
        /\ probeFile.noise_bits = 0
        /\ probeFile.path_depth = 0

\* The accessors have been read for the FileId of a record that was added
\* with a path under the index root.
ReadUnderRoot ==
    /\ idxPhase = "read"
    /\ probeId < Len(added)
    /\ strip_prefix(added[probeId + 1].full_path, Root).ok

\* C13: path reconstruction round trip.  For every record added whose
\* absolute path lies under the index root, reconstruct_full_path of its
\* FileId on the written and re-opened index returns the record's absolute
\* path: the root, one '/', the directory components and the file name
\* joined by '/'.
C13_PathRoundTrip ==
    ReadUnderRoot =>
        /\ ~probeFile.full_path.panic
        /\ probeFile.full_path.val = PathBytes(added[probeId + 1].full_path)
        /\ probeFile.full_path.val
              = PathBytes(Root) \o Str_slash
                \o JoinWith(strip_prefix(added[probeId + 1].full_path, Root).path.comps,
                            Str_slash)

\* The path of target/debug/q, two directories below the root, has been
\* reconstructed in an index of three records where it is not the first.
C13_Witness ==
    /\ ReadUnderRoot
    /\ Len(added) = 3
    /\ probeId >= 1
    /\ added[probeId + 1] = Rec_q
    /\ ~probeFile.full_path.panic
    /\ probeFile.full_path.val = PathBytes(Rec_q.full_path)
(***************************************************************************)
(* Claims about Index::open on damaged files                               *)
(***************************************************************************)
\* The header fields as they stand in the file at the path.
StoredHeader == RdIndexHeader(disk.val)

StoredExtentsInRange ==
    \A i \in 1..Len(SectionNames) :
        StoredHeader.sections[SectionNames[i]].offset
            + StoredHeader.sections[SectionNames[i]].len <= Len(disk.val)

\* The sections of multi-byte records: all but the extension table and the
\* names blob.
StoredTypedAligned ==
    \A i \in 1..Len(SectionNames) :
        SectionAligned[SectionNames[i]]
            => StoredHeader.sections[SectionNames[i]].offset % SECTION_ALIGNMENT = 0

OpenReturnedReader == idxPhase = "open" /\ index.ok

\* C12: Index::open returns a reader only if the file's magic and version
\* match, every section descriptor has offset + len within the file, and
\* every section of multi-byte records starts at an 8-byte-aligned offset.
C12_OpenFailsClosed ==
    OpenReturnedReader =>
        /\ StoredHeader.magic = INDEX_MAGIC
        /\ StoredHeader.version = INDEX_VERSION
        /\ StoredExtentsInRange
        /\ StoredTypedAligned

\* What the open does guarantee: magic, version and extents.
OpenChecksExtents ==
    OpenReturnedReader =>
        /\ StoredHeader.magic = INDEX_MAGIC
        /\ StoredHeader.version = INDEX_VERSION
        /\ StoredExtentsInRange
(***************************************************************************)
(* Claims about the directory table of the builder, under SpecIndex.       *)
(***************************************************************************)
\* Every DirMeta's parent is the sentinel or an earlier DirId.
ParentsEarlier(dirs) ==
    \A i \in 1..Len(dirs) : dirs[i].parent = U32_MAX \/ dirs[i].parent < i - 1

\* The loop over the dir chain of reconstruct_relative_path, started at d,
\* reaches the sentinel within `steps` directories of the table.
RECURSIVE ChainEnds(_, _, _)
ChainEnds(dirs, d, steps) ==
    IF d = U32_MAX THEN TRUE
    ELSE IF steps = 0 \/ d >= Len(dirs) THEN FALSE
    ELSE ChainEnds(dirs, dirs[d + 1].parent, steps - 1)

\* C29: after any sequence of add_record calls every DirMeta's parent is
\* the sentinel 0xFFFFFFFF or the index of a DirMeta with a strictly
\* smaller index, so the parent graph has no cycle and the parent-link walk
\* of path reconstruction ends at the sentinel for every file and every
\* directory.
C29_DirParentsEarlier ==
    /\ ParentsEarlier(builder.dirs)
    /\ \A i \in 1..Len(builder.files) :
          ChainEnds(builder.dirs, builder.files[i].dir_id, Len(builder.dirs))
    /\ \A d \in 1..Len(builder.dirs) : ChainEnds(builder.dirs, d - 1, Len(builder.dirs))

\* Records were added under a directory two levels below the root and at
\* the root itself.
C29_Witness ==
    /\ Len(added) >= 2
    /\ \E i \in 1..Len(builder.dirs) : builder.dirs[i].parent # U32_MAX
    /\ \E i \in 1..Len(builder.files) :
          /\ builder.files[i].dir_id # U32_MAX
          /\ builder.dirs[builder.files[i].dir_id + 1].parent # U32_MAX
    /\ \E i \in 1..Len(builder.files) : builder.files[i].dir_id = U32_MAX
    /\ C29_DirParentsEarlier
(***************************************************************************)
(* Claims about the layout of the file written, under SpecLayout.           *)
(***************************************************************************)
IndexIsWritten == disk.some

\* The end of the i-th section described by the descriptors `secs`, the
\* end of the header for i = 0.
DescribedEnd(secs, i) ==
    IF i = 0 THEN SIZE_INDEX_HEADER
    ELSE secs[SectionNames[i]].offset + secs[SectionNames[i]].len

\* The sections that hold records of more than one byte: all but the
\* extension table and the names blob.
MultiByteSections ==
    {"metadata", "dirs", "files_meta", "ext_index_keys", "ext_index_postings",
     "trigram_keys", "trigram_postings", "dir_trigram_keys", "dir_trigram_postings"}

\* The bytes of the file from offset `from` up to offset `to`.
BytesBetween(from, to) == SubSeq(disk.val, from + 1, to)

\* The sections `bytes` are in the file where the descriptors say.
SectionsAt(secs, bytes) ==
    \A i \in 1..Len(SectionNames) :
        BytesBetween(secs[SectionNames[i]].offset, DescribedEnd(secs, i)) = bytes[SectionNames[i]]

\* The sections described follow the header and one another, aligned
\* where their records are multi-byte, with zeros in between, up to the
\* end of the file.
SectionsInOrder(secs) ==
    /\ \A i \in 1..Len(SectionNames) :
          /\ DescribedEnd(secs, i - 1) <= secs[SectionNames[i]].offset
          /\ SectionNames[i] \in MultiByteSections =>
                secs[SectionNames[i]].offset % SECTION_ALIGNMENT = 0
          /\ \A k \in (DescribedEnd(secs, i - 1) + 1)..secs[SectionNames[i]].offset :
                disk.val[k] = 0
    /\ DescribedEnd(secs, Len(SectionNames)) = Len(disk.val)

\* The descriptors in the header of the file written.
WrittenSections == RdIndexHeader(disk.val).sections

\* C30: in the file write_index_to produces, each of the eleven sections
\* starts at the offset of its header descriptor and spans the length
\* recorded there; the sections follow one another in the fixed order,
\* overlapping neither each other nor the header, and the last one ends
\* the file; every section of multi-byte records starts at a multiple of
\* 8; every byte between two sections is zero.
C30_SectionsWhereDescribed ==
    IndexIsWritten =>
        With(WrittenSections, LAMBDA secs :
            /\ SectionsInOrder(secs)
            /\ \E created_secs \in ClockValues :
                  With(SectionBytes(staged, created_secs), LAMBDA bytes : SectionsAt(secs, bytes)))

\* A file with records in it was written, with a gap before a section, a
\* section right after the one before it, and directories, files and
\* trigram keys in their sections.
C30_Witness ==
    /\ IndexIsWritten
    /\ Len(staged.files) >= 2
    /\ \E i \in 1..Len(SectionNames) :
          WrittenSections[SectionNames[i]].offset > DescribedEnd(WrittenSections, i - 1)
    /\ \E i \in 1..Len(SectionNames) :
          WrittenSections[SectionNames[i]].offset = DescribedEnd(WrittenSections, i - 1)
    /\ WrittenSections.dirs.len > 0
    /\ WrittenSections.files_meta.len > 0
    /\ WrittenSections.trigram_keys.len > 0
    /\ C30_SectionsWhereDescribed
(***************************************************************************)
(* Claims about write_index_atomic                                         *)
(***************************************************************************)
\* The complete image of the index being written.
NewImage == IndexImage(wStaged, 0, wCreated)

\* The destination is as it was before the call, or holds the complete new
\* image; after an error it is as it was.
DestinationIntact ==
    /\ wFs[DestName] = wBefore \/ wFs[DestName] = Some(NewImage)
    /\ wPc = "err" => wFs[DestName] = wBefore

\* A step that changes the destination is the rename, taken when every byte
\* of the image is in the temp file and fsynced.
DestinationChangesByRename ==
    wFs'[DestName] # wFs[DestName] =>
        /\ wPc = "persist"
        /\ wChunks = <<>> /\ wBuf = <<>>
        /\ wFs[TempFileName] = Some(NewImage)
        /\ wSynced
        /\ wFs'[DestName] = Some(NewImage)

\* C2: write_index_atomic never promotes a partial file.  In every state of
\* every run, failing runs included, the destination is unchanged or holds
\* the complete new image; only the rename changes it, after all bytes are
\* written and fsynced; after an error the destination is untouched.
C2_NeverPromotesPartialFile ==
    /\ [](wPc # "idle" => DestinationIntact)
    /\ [][wPc # "idle" => DestinationChangesByRename]_vars

\* A run that replaced an older index by the new image and returned Ok.
C2_Witness ==
    /\ wPc = "ok"
    /\ wBefore.some
    /\ wFs[DestName] = Some(NewImage)
    /\ wFs[DestName] # wBefore
    /\ wFs[TempFileName] = NoneSeq

(***************************************************************************)
(* Claims about the hot swap                                               *)
(***************************************************************************)
HoldsHandle(c) == clients[c].handle.some

\* C3: a query evaluates entirely against the index of the handle it got
\* from current_index, whatever swap_index calls run meanwhile; a query that
\* calls current_index after a swap_index has returned gets an index
\* installed no earlier than that swap's; and an index is unmapped only when
\* neither the lock nor any client holds a handle to it.
C3_HotSwap ==
    swInstalled # <<>> =>
        /\ \A c \in Clients : HoldsHandle(c) =>
              /\ clients[c].handle.val \in swMapped
              /\ \A k \in 1..Len(clients[c].reads) : clients[c].reads[k] = clients[c].handle.val
              /\ PositionIn(swInstalled, clients[c].handle.val) >= clients[c].floor
        /\ swCurrent \in swMapped
        /\ \A id \in 0..MaxSwaps :
              (swStrong[id] > 0) <=> (id \in swMapped)

\* A query still reading the index it started on after two swaps have
\* replaced it, that index being kept alive by the query's handle alone,
\* while another query runs on the newest index.
C3_Witness ==
    /\ swInstalled # <<>>
    /\ \E c \in Clients, d \in Clients :
          /\ clients[c].pc = "query" /\ clients[c].handle = Some(0)
          /\ clients[c].reads = <<0>>
          /\ swStrong[0] = 1
          /\ swCurrent = MaxSwaps /\ swReturned = MaxSwaps + 1
          /\ clients[d].pc = "query" /\ clients[d].handle = Some(MaxSwaps)
          /\ clients[d].floor = MaxSwaps + 1

(***************************************************************************)
(* Claims about walk_parallel                                              *)
(***************************************************************************)
\* The records of the entries reachable from a directory through the
\* directories recursed into.
RECURSIVE ReachableRecords(_)
ReachableRecords(dir) ==
    IF ~WalkFs[dir].readable THEN {}
    ELSE {e.rec : e \in {x \in WalkFs[dir].entries : x.some}}
         \cup UNION {ReachableRecords(e.rec.full_path.comps) :
                        e \in {x \in WalkFs[dir].entries : x.some /\ should_recurse(x.rec)}}

ExpectedRecords == UNION {ReachableRecords(wkRoots[i]) : i \in 1..Len(wkRoots)}

\* Every record sent on the output channel, in order.
SentRecords == Flatten(wkOut)

SentExactlyOnce ==
    /\ Range(SentRecords) = ExpectedRecords
    /\ Len(SentRecords) = Cardinality(ExpectedRecords)

WorkerExited(w) == wkWorkers[w].pc \in {"flush", "done"}

\* No directory is in the work channel or in the hands of a worker.
NothingLeftToScan ==
    /\ wkQueue = <<>>
    /\ \A w \in DOMAIN wkWorkers : wkWorkers[w].pc \notin {"scan", "send_dir", "dec"}

WalkReturned == wkMain = "returned"

Evaluated == qOp \in {"eval_expr", "eval_query"}

\* What eval_expr hands back when it returns: a strictly ascending vector
\* of candidates, all of them for And([]) and none for Or([]).
SortedSubsetOfCandidates ==
    /\ StrictlyAscending(qOut.val)
    /\ Range(qOut.val) \subseteq Range(qCands)
    /\ qExpr = And(<<>>) => qOut.val = qCands
    /\ qExpr = Or(<<>>) => qOut.val = <<>>

\* C10: for every query expression and every strictly ascending candidate
\* set, eval_expr returns, and what it returns is a strictly ascending
\* FileId vector that is a subset of the candidates; And([]) returns the
\* candidates unchanged and Or([]) returns the empty vector.
C10_EvalExprSortedSubset ==
    Evaluated => ~qOut.panic /\ SortedSubsetOfCandidates

(***************************************************************************)
(* Claims about run_query                                                  *)
(***************************************************************************)
\* The queries made of one text term and one ext predicate: the string, its
\* term and its extension.
TextAndExtQueries ==
    {[query |-> Q_query_ext_rs, term |-> Str_query, ext |-> Str_rs],
     [query |-> Q_ext_rs_query, term |-> Str_query, ext |-> Str_rs],
     [query |-> Q_QUERY_ext_RS, term |-> Str_query, ext |-> Str_rs],
     [query |-> Q_main_ext_rs, term |-> Str_main, ext |-> Str_rs],
     [query |-> Q_query_ext_md, term |-> Str_query, ext |-> Str_md]}

RegularFilesOnly(recs) ==
    \A k \in 1..Len(recs) : ~recs[k].is_dir /\ ~recs[k].is_symlink /\ ~recs[k].is_special

\* The FileIds of the records whose extension is ext, whatever the case, and
\* whose path contains term, whatever the case; the k-th record added has
\* FileId k - 1.
MatchingRecords(recs, term, ext) ==
    {k - 1 : k \in {j \in 1..Len(recs) :
                       /\ recs[j].ext.some
                       /\ LowerStr(recs[j].ext.val) = LowerStr(ext)
                       /\ contains_lowercase_ascii(PathBytes(recs[j].full_path),
                                                   LowerStr(term))}}

HitIds == {qRun.hits[k].file_id : k \in 1..Len(qRun.hits)}

\* C1: build, write, open, run_query: over regular-file records a query of
\* one text term and one ext:E predicate returns exactly the FileIds whose
\* record has extension E and whose path contains the term, ranked 1, 2, ..
\* and counted in total; over {src/query.rs, target/debug/q} the query
\* "query ext:rs" returns exactly FileId 0, ranked first, with total = 1.
C1_RunQueryTextAndExt ==
    \A c \in TextAndExtQueries :
        (qOp = "run_query" /\ qText = c.query /\ RegularFilesOnly(qRecs)) =>
            LET expected == MatchingRecords(qRecs, c.term, c.ext)
            IN /\ ~qRun.panic
               /\ qRun.total = Cardinality(expected)
               /\ HitIds \subseteq expected
               /\ Len(qRun.hits) = Min(qLimit, Cardinality(expected))
               /\ \A k \in 1..Len(qRun.hits) : qRun.hits[k].rank = k
               /\ (qRecs = Corpus_example /\ c.query = Q_query_ext_rs /\ qLimit >= 1) =>
                     /\ qRun.total = 1
                     /\ Len(qRun.hits) = 1
                     /\ qRun.hits[1].file_id = 0
                     /\ qRun.hits[1].rank = 1
(***************************************************************************)
(* Claims about rank and the path-order filter                             *)
(***************************************************************************)
RankCalled == qOp = "rank"

\* The score compute_score gives a hit under the query ranked.
ScoreOfHit(fid) ==
    compute_score(qIndex, FileFeatures(qIndex, fid), RankingContext(Query(qExpr), qNow)).val

\* Hit a ranks before hit b: higher score, or equal score and lower FileId.
RanksBefore(a, b) ==
    ScoreOfHit(a) > ScoreOfHit(b) \/ (ScoreOfHit(a) = ScoreOfHit(b) /\ a < b)

ExpectedRankLen == IF qLimit.some THEN Min(qLimit.val, Len(qCands)) ELSE Len(qCands)

\* The single pass took its partial-sort branch.
PartialSortTaken == qLimit.some /\ qLimit.val > 0 /\ qLimit.val < Len(qCands) \div 2

\* C15: rank returns min(limit, |hits|) distinct FileIds of hits (all of
\* them without a limit, none for limit 0), each ranking before the next:
\* descending score, equal scores in ascending FileId order; every hit left
\* out ranks after the last one returned, so that the partial-sort branch
\* and the full-sort branch of the single pass return the same vector.
C15_RankOrder ==
    RankCalled =>
        /\ ~qOut.panic
        /\ Len(qOut.val) = ExpectedRankLen
        /\ Range(qOut.val) \subseteq Range(qCands)
        /\ \A i \in 1..(Len(qOut.val) - 1) : RanksBefore(qOut.val[i], qOut.val[i + 1])
        /\ qOut.val # <<>> =>
              \A h \in Range(qCands) \ Range(qOut.val) : RanksBefore(Last(qOut.val), h)

\* The partial-sort branch returned two of at least six hits, and the two
\* have the same score.
C15_Witness ==
    /\ RankCalled
    /\ PartialSortTaken
    /\ qLimit.val = 2
    /\ ~qOut.panic
    /\ Len(qOut.val) = 2
    /\ ScoreOfHit(qOut.val[1]) = ScoreOfHit(qOut.val[2])
    /\ qOut.val[1] < qOut.val[2]

PathOrderCalled == qOp = "apply_path_order_filter"

\* The terms the filter collects from the query.
CollectedTerms == collect_text_terms_in_order(qExpr)

\* The lowercased full path of a hit, from the record it was built from.
RecordPathLower(fid) == LowerStr(PathBytes(qRecs[fid + 1].full_path))

\* Some placement of the terms k.. in the path at or after offset from:
\* each term occurs at an offset that is not before the end of the
\* occurrence of the term before it.
RECURSIVE PlacementExists(_, _, _, _)
PlacementExists(path, terms, k, from) ==
    \/ k > Len(terms)
    \/ \E pos \in from..(Len(path) - Len(terms[k])) :
          /\ SubSeq(path, pos + 1, pos + Len(terms[k])) = terms[k]
          /\ PlacementExists(path, terms, k + 1, pos + Len(terms[k]))

InOrderInPath(fid) == PlacementExists(RecordPathLower(fid), CollectedTerms, 1, 0)

\* C16: with at least two collected text terms apply_path_order_filter keeps
\* exactly the hits whose lowercased full path contains the terms in query
\* order at non-overlapping offsets advancing left to right, in their input
\* order; with fewer than two terms it returns its input unchanged.
C16_PathOrderFilter ==
    PathOrderCalled =>
        /\ ~qOut.panic
        /\ qOut.val = IF Len(CollectedTerms) >= 2
                      THEN SelectSeq(qCands, InOrderInPath)
                      ELSE qCands

\* The filter ran with two terms or more over at least three hits, kept
\* two of them or more and dropped one that contains every term, though not
\* in order or not without overlap.
C16_Witness ==
    /\ PathOrderCalled
    /\ Len(CollectedTerms) >= 2
    /\ Len(qCands) >= 3
    /\ ~qOut.panic
    /\ Len(qOut.val) >= 2
    /\ \E fid \in Range(qCands) \ Range(qOut.val) :
          \A k \in 1..Len(CollectedTerms) : Contains(RecordPathLower(fid), CollectedTerms[k])
(***************************************************************************)
(* Claims about the parser                                                 *)
(***************************************************************************)
ParseCalled == qOp = "parse_query"

ParsedExpr == qOut.val.expr

\* The queries with a degenerate position and what each parses to: the
\* operator, the ')' or the end of input stands for And([]) where a primary
\* is expected.
DegenerateQueries(t) ==
    {[pieces |-> <<>>, expr |-> And(<<>>)],
     [pieces |-> <<W_AND>>, expr |-> And(<<And(<<>>), And(<<>>)>>)],
     [pieces |-> <<W_OR>>, expr |-> Or(<<And(<<>>), And(<<>>)>>)],
     [pieces |-> <<W_NOT>>, expr |-> Not(And(<<>>))],
     [pieces |-> <<W_rparen>>, expr |-> And(<<>>)],
     [pieces |-> <<W_lparen>>, expr |-> And(<<>>)],
     [pieces |-> <<W_lparen, W_rparen>>, expr |-> And(<<>>)],
     [pieces |-> <<W_AND, t.text>>, expr |-> And(<<And(<<>>), t.leaf>>)],
     [pieces |-> <<W_OR, t.text>>, expr |-> Or(<<And(<<>>), t.leaf>>)],
     [pieces |-> <<t.text, W_AND>>, expr |-> And(<<t.leaf, And(<<>>)>>)],
     [pieces |-> <<t.text, W_OR>>, expr |-> Or(<<t.leaf, And(<<>>)>>)],
     [pieces |-> <<t.text, W_NOT>>, expr |-> And(<<t.leaf, Not(And(<<>>))>>)],
     [pieces |-> <<t.text, W_AND, W_AND>>, expr |-> And(<<t.leaf, And(<<>>), And(<<>>)>>)],
     [pieces |-> <<t.text, W_OR, W_OR>>, expr |-> Or(<<t.leaf, And(<<>>), And(<<>>)>>)],
     [pieces |-> <<W_lparen, W_OR, t.text>>, expr |-> Or(<<And(<<>>), t.leaf>>)],
     [pieces |-> <<W_lparen, t.text, W_AND>>, expr |-> And(<<t.leaf, And(<<>>)>>)]}

DegeneratePositionsNeutral ==
    /\ \A t \in QueryTerms : \A d \in DegenerateQueries(t) :
          qText = QueryText(d.pieces) => qOut = Returned(Query(d.expr))
    /\ qText \in {Q_empty, Q_blank, Q_tab_newline} => qOut = Returned(Query(And(<<>>)))

\* What holds of the degenerate positions in every build.
DegenerateNeutralWhereReturned == ParseCalled /\ ~qOut.panic => DegeneratePositionsNeutral

\* C17: parse_query returns a Query for every input string, it never fails;
\* an operator, a ')' or the end of input where a primary is expected
\* contributes And([]), and empty or whitespace-only input yields And([]).
C17_ParseNeverFails == ParseCalled => ~qOut.panic /\ DegeneratePositionsNeutral

\* The combinations of three terms and what each parses to, AND written out
\* or left out.
PrecedenceQueries(a, b, c) ==
    {[pieces |-> <<a.text, W_OR, b.text, W_AND, c.text>>,
      implicit |-> <<a.text, W_OR, b.text, c.text>>,
      expr |-> Or(<<a.leaf, And(<<b.leaf, c.leaf>>)>>)],
     [pieces |-> <<a.text, W_AND, b.text, W_OR, c.text>>,
      implicit |-> <<a.text, b.text, W_OR, c.text>>,
      expr |-> Or(<<And(<<a.leaf, b.leaf>>), c.leaf>>)],
     [pieces |-> <<a.text, W_AND, b.text, W_AND, c.text>>,
      implicit |-> <<a.text, b.text, c.text>>,
      expr |-> And(<<a.leaf, b.leaf, c.leaf>>)],
     [pieces |-> <<a.text, W_AND, b.text, c.text>>,
      implicit |-> <<a.text, b.text, c.text>>,
      expr |-> And(<<a.leaf, b.leaf, c.leaf>>)],
     [pieces |-> <<a.text, W_AND, b.text>>,
      implicit |-> <<a.text, b.text>>,
      expr |-> And(<<a.leaf, b.leaf>>)],
     [pieces |-> <<W_NOT, a.text, W_AND, b.text, W_OR, c.text>>,
      implicit |-> <<W_NOT, a.text, b.text, W_OR, c.text>>,
      expr |-> Or(<<And(<<Not(a.leaf), b.leaf>>), c.leaf>>)],
     [pieces |-> <<a.text, W_OR, W_NOT, b.text, W_AND, W_NOT, c.text>>,
      implicit |-> <<a.text, W_OR, W_NOT, b.text, W_NOT, c.text>>,
      expr |-> Or(<<a.leaf, And(<<Not(b.leaf), Not(c.leaf)>>)>>)],
     [pieces |-> <<W_lparen, a.text, W_OR, b.text, W_rparen, W_AND, c.text>>,
      implicit |-> <<W_lparen, a.text, W_OR, b.text, W_rparen, c.text>>,
      expr |-> And(<<Or(<<a.leaf, b.leaf>>), c.leaf>>)]}

\* C18: OR has the lowest precedence, AND, written out or implied by
\* juxtaposition, binds tighter and NOT binds tightest: for any terms a, b
\* and c, "a OR b AND c" parses to Or([a, And([b, c])]), and a query in which
\* an AND between two terms is replaced by whitespace parses to the same AST.
C18_Precedence ==
    ParseCalled =>
        \A a \in QueryTerms, b \in QueryTerms, c \in QueryTerms :
            \A p \in PrecedenceQueries(a, b, c) :
                qText \in {QueryText(p.pieces), QueryText(p.implicit)}
                    => qOut = Returned(Query(p.expr))

C18_Witness ==
    /\ ParseCalled
    /\ qText = QueryText(<<W_foo, W_OR, Q_ext_rs, W_AND, W_phrase>>)
    /\ qOut = Returned(Query(Or(<<Txt(W_foo),
                                  And(<<ExtIs(Str_rs),
                                        TextLeaf(TextTerm(Str_q_r, TRUE, FALSE))>>)>>)))

\* Whether a value is a literal of the field called name: an extension, a
\* size, or a time macro, date or relative time.
IsLiteralOf(name, value) ==
    CASE name = Str_ext -> Trim(value) \notin {<<>>, Str_dot}
      [] name = Str_size -> parse_size(value).some
      [] name \in {Str_modified, Str_created} ->
            \/ parse_time_macro(LowerStr(value)).some
            \/ parse_ymd_date(value).some
            \/ parse_relative_time_literal(value, FALSE).some
      [] OTHER -> FALSE

\* The field atoms the fallback is for: an unknown field name, or a value
\* that is not a literal of the field.
DegradesToText(atom) == ~IsLiteralOf(LowerStr(atom.name), atom.value)

\* A single Text leaf that keeps the lexeme and is not a phrase.
IsTextLeafOf(expr, lexeme) ==
    expr.kind = "Text" /\ expr.term.text = lexeme /\ ~expr.term.is_phrase

\* What holds of the atoms without an operator: the Text leaf keeps the
\* lexeme.
FallbackKeepsBareLexeme ==
    ParseCalled =>
        \A atom \in FieldAtoms :
            qText = AtomText(atom) /\ DegradesToText(atom) /\ atom.op = <<>>
                => ~qOut.panic /\ IsTextLeafOf(ParsedExpr, qText)

\* C19: a field atom name:value whose field name is not ext, size, created
\* or modified, or whose value is not a literal of its field, with or
\* without a comparison operator before the value, parses to a single Text
\* leaf whose text is the atom as written and which is not a phrase; the
\* parse does not fail.
C19_FallbackKeepsLexeme ==
    ParseCalled =>
        \A atom \in FieldAtoms :
            qText = AtomText(atom) /\ DegradesToText(atom)
                => ~qOut.panic /\ IsTextLeafOf(ParsedExpr, qText)

\* Whether a predicate with the operator Ne occurs in an expression.
RECURSIVE HasNePredicate(_)
HasNePredicate(expr) ==
    CASE expr.kind \in {"And", "Or"} ->
            \E k \in 1..Len(expr.children) : HasNePredicate(expr.children[k])
      [] expr.kind = "Not" -> HasNePredicate(expr.inner)
      [] expr.kind = "Pred" -> expr.pred.op = "Ne"
      [] OTHER -> FALSE

\* What holds of the queries without a quoted value: no predicate is Ne.
NoNeWithoutQuotes ==
    ParseCalled /\ ~qOut.panic /\ (\A k \in 1..Len(qText) : qText[k] # 34)
        => ~HasNePredicate(ParsedExpr)

\* C20: a literal != never parses as Ne: for no query string, quoted or
\* not, does parse_query produce a Predicate whose operator is Ne.
C20_NeverNe == ParseCalled /\ ~qOut.panic => ~HasNePredicate(ParsedExpr)
(***************************************************************************)
(* Claims about parse_size                                                 *)
(***************************************************************************)
SizeParsed == qOp = "parse_size"

\* The shape of a unit that means bits: two letters or more, the first an
\* ASCII uppercase letter and the last a lowercase 'b'.
BitsShaped(unit) == Len(unit) > 1 /\ unit[1] \in 65..90 /\ Last(unit) = 98

\* The multiplier of a unit: 1024 to the power of its prefix, whatever the
\* case and with or without 'i'; -1 for a prefix outside the table.
UnitPower(unit) ==
    LET prefix == LowerStr(IF unit # <<>> /\ Last(unit) \in {98, 66} THEN Front(unit) ELSE unit)
    IN CASE prefix = <<>> -> 0
         [] prefix \in {<<107>>, <<107, 105>>} -> 1
         [] prefix \in {<<109>>, <<109, 105>>} -> 2
         [] prefix \in {<<103>>, <<103, 105>>} -> 3
         [] prefix \in {<<116>>, <<116, 105>>} -> 4
         [] OTHER -> -1

Pow1024(e) == IF e = 0 THEN 1 ELSE IF e = 1 THEN 1024 ELSE IF e = 2 THEN 1048576 ELSE 1073741824

\* The literals whose product fits the word.
ProductFits(num, unit) ==
    UnitPower(unit) \in 0..3 /\ num <= U64_MAX \div Pow1024(UnitPower(unit))

Str_1Mb == <<49, 77, 98>>                                 \* "1Mb"
Str_1MB == <<49, 77, 66>>                                 \* "1MB"
Str_1mb == <<49, 109, 98>>                                \* "1mb"
Str_8Kb == <<56, 75, 98>>                                 \* "8Kb"

\* C21: parse_size reads a unit as bits exactly when the unit ends in a
\* lowercase 'b', has more than one letter and starts with an ASCII uppercase
\* letter, and then divides by 8 with integer division; every other unit
\* means bytes.  So "1Mb" is 131072, "1MB" and "1mb" are 1048576 and "8Kb"
\* is 1024.
C21_SizeSmartcase ==
    SizeParsed =>
        /\ \A num \in SizeNumbers, unit \in SizeUnits :
              qText = SizeLiteral(num, unit) /\ ProductFits(num, unit)
                  => qOut = Some(IF BitsShaped(unit)
                                 THEN (num * Pow1024(UnitPower(unit))) \div 8
                                 ELSE num * Pow1024(UnitPower(unit)))
        /\ qText = Str_1Mb => qOut = Some(131072)
        /\ qText \in {Str_1MB, Str_1mb} => qOut = Some(1048576)
        /\ qText = Str_8Kb => qOut = Some(1024)

C21_Witness == SizeParsed /\ qText = Str_1Mb /\ qOut = Some(131072)
(***************************************************************************)
(* Claims about the trigram builders                                       *)
(***************************************************************************)
TrigramsBuilt == qOp = "build_trigrams"

\* C22: for every non-empty string, the query trigram set of
\* build_query_trigrams is a subset of the indexing trigram set of
\* build_trigrams_for_string.
C22_QueryTrigramsSubset ==
    TrigramsBuilt /\ qText # <<>> => Range(qOut.query) \subseteq Range(qOut.full)

\* A string of mixed case whose last window is added to the ones at every
\* third offset, and whose query set is smaller than its indexing set.
C22_Witness ==
    /\ TrigramsBuilt
    /\ Len(qText) = 7
    /\ \E k \in 1..7 : qText[k] = 66
    /\ Len(qOut.query) = 3
    /\ Len(qOut.full) = 5
    /\ Range(qOut.query) \subseteq Range(qOut.full)
(***************************************************************************)
(* Claims about text terms and conjunctions                                *)
(***************************************************************************)
AndEvaluated == qOp = "eval_and"

TextTermEvaluated == qOp = "eval_text_term"

\* The result of one child of the conjunction evaluated on the candidates.
ChildResult(k) ==
    eval_expr(qIndex, qExpr.children[k], qCands, qNow, Env(qChecks, "first", TRUE))

\* The candidates that are in the result of every child.
InEveryChildResult ==
    {c \in Range(qCands) : \A k \in 1..Len(qExpr.children) : c \in Range(ChildResult(k).val)}

\* C23: And is set intersection: for every And(children) and candidate set,
\* the result is the intersection of the results of the children, each
\* evaluated on the candidate set, whatever the order the planner gives the
\* children and whether the pure-text path or the cost-ordered fold is taken.
C23_AndIsIntersection ==
    AndEvaluated => ~qOut.panic /\ Range(qOut.val) = InEveryChildResult

\* What holds of the conjunctions none of whose text terms has the cost
\* ZERO, wherever eval_expr returns.
NoZeroCostChild ==
    \A k \in 1..Len(qExpr.children) :
        qExpr.children[k].kind = "Text"
            => estimate_text_term_cost(qIndex, qExpr.children[k].term) # Cost_ZERO

AndIsIntersectionWithoutZeroCost ==
    AndEvaluated /\ ~qOut.panic /\ NoZeroCostChild => Range(qOut.val) = InEveryChildResult

\* The linear scan of the needle of the term evaluated, over the same
\* candidates.
LinearScanResult ==
    eval_text_linear_scan_with_paths(qIndex, LowerStr(extract_search_term(qExpr.term.text)),
                                     qCands)

NeedleLen == Len(extract_search_term(qExpr.term.text))

\* C24: trigram filtering has no false negatives: for a needle of 3 bytes or
\* more and any candidate set, eval_text_term returns exactly the FileIds
\* the linear scan returns over the same candidates, so the result does not
\* depend on the number of candidates.
C24_TrigramPathEqualsLinearScan ==
    TextTermEvaluated /\ NeedleLen >= 3 => ~qOut.panic /\ qOut = LinearScanResult

\* What holds of every text term: the result is a part of what the linear
\* scan returns.
TrigramPathWithinLinearScan ==
    TextTermEvaluated => ~qOut.panic /\ Range(qOut.val) \subseteq Range(LinearScanResult.val)

\* C25: a text term whose estimated cost is ZERO matches no path of the
\* index: eval_text_term returns the empty set for it on every candidate
\* set.
C25_ZeroCostMatchesNothing ==
    TextTermEvaluated /\ qLimit = Cost_ZERO => qOut = Returned(<<>>)
(***************************************************************************)
(* Claims about the two-pass branch of rank, under SpecTwoPass.            *)
(***************************************************************************)
RankedMany == qOp = "rank"

EffectiveLimit == IF qLimit.some THEN Min(qLimit.val, Len(qCands)) ELSE Len(qCands)

\* The condition under which rank calls rank_two_pass.
TwoPassTaken ==
    /\ RankedMany
    /\ qCands # <<>>
    /\ ~(qLimit.some /\ qLimit.val = 0)
    /\ Len(qCands) > TWO_PASS_THRESHOLD
    /\ Len(qCands) \div EffectiveLimit > TWO_PASS_RATIO

\* The hits in the order of the full score, cut at the limit.
SinglePassResult ==
    Bind(ScoreAll(qIndex, RankingContext(Query(qExpr), qNow), qCands, 1, <<>>),
         LAMBDA scored : Returned(FidsOf(Truncate(SortScored(scored), EffectiveLimit))))

\* C26: when rank takes the two-pass branch (more than TWO_PASS_THRESHOLD
\* hits and more than TWO_PASS_RATIO hits per result asked for), what it
\* returns is what the single pass over the same hits returns: the first
\* pass drops no hit that belongs to the top `limit` by full score.
C26_TwoPassEqualsSinglePass ==
    TwoPassTaken => qOut = SinglePassResult

\* What the two-pass branch does keep: it does not panic and returns as
\* many of the hits as the limit asks for.
TwoPassOrdersWhatItKeeps ==
    TwoPassTaken =>
        /\ ~qOut.panic
        /\ Len(qOut.val) = EffectiveLimit
        /\ \A k \in 1..Len(qOut.val) : \E j \in 1..Len(qCands) : qCands[j] = qOut.val[k]
(***************************************************************************)
(* Claims about estimate_cost_simple, under SpecCost.                      *)
(***************************************************************************)
TextCostEstimated == qOp = "estimate_cost_simple" /\ qExpr.kind = "Text"

\* 10 + (30 - min(len, 40)) over the integers.
LengthCost(len) == 10 + (30 - Min(len, 40))

\* The cost estimate_cost_simple gives the term of `len` letters of qText.
CostOfLength(len) == estimate_cost_simple(Txt(Rep(qText[1], len)), qChecks)

\* C27: estimate_cost_simple gives a text term of fewer than 3 characters
\* the cost LINEAR_SCAN and a term of 3 or more characters, of any length,
\* the cost 10 + (30 - min(len, 40)), computed without leaving the range of
\* u64; no shorter term of 3 or more characters costs less, and the cost
\* is below LINEAR_SCAN.
C27_TextCostByLength ==
    TextCostEstimated =>
        /\ ~qOut.panic
        /\ Len(qText) < 3 => qOut.val = Cost_LINEAR_SCAN
        /\ Len(qText) >= 3 =>
              /\ LengthCost(Len(qText)) >= 0
              /\ qOut.val = LengthCost(Len(qText))
              /\ qOut.val < Cost_LINEAR_SCAN
              /\ \A shorter \in 3..Len(qText) :
                    /\ ~CostOfLength(shorter).panic
                    /\ CostOfLength(shorter).val >= qOut.val

\* For the terms of at most 30 characters the claim holds in every build,
\* and without the overflow checks it holds for the longer terms too: the
\* subtraction wraps and the addition wraps back.
TextCostByLengthWhereReturned ==
    TextCostEstimated /\ (Len(qText) <= 30 \/ ~qChecks) =>
        /\ ~qOut.panic
        /\ Len(qText) < 3 => qOut.val = Cost_LINEAR_SCAN
        /\ Len(qText) >= 3 =>
              /\ qOut.val = LengthCost(Len(qText))
              /\ qOut.val < Cost_LINEAR_SCAN
              /\ \A shorter \in 3..Len(qText) : CostOfLength(shorter).val >= qOut.val
(***************************************************************************)
(* Claims about the tokens the parser consumes, under SpecParse.           *)
(***************************************************************************)
\* The leaves of an expression.
RECURSIVE CountLeaves(_)
RECURSIVE CountLeavesOf(_, _)
CountLeaves(expr) ==
    CASE expr.kind \in {"Text", "Pred"} -> 1
      [] expr.kind = "Not" -> CountLeaves(expr.inner)
      [] expr.kind \in {"And", "Or"} -> CountLeavesOf(expr.children, 1)

CountLeavesOf(children, k) ==
    IF k > Len(children) THEN 0
    ELSE CountLeaves(children[k]) + CountLeavesOf(children, k + 1)

\* The atoms of a token vector from pos up to Eof: the operators and the
\* parentheses are stepped over, every other token starts an atom (a field
\* atom takes its colon, operator and value with it).
RECURSIVE CountAtoms(_, _)
CountAtoms(tokens, pos) ==
    IF peek(tokens, pos) = "Eof" THEN 0
    ELSE IF peek(tokens, pos) \in {"LParen", "RParen", "Or", "And", "Not"}
    THEN CountAtoms(tokens, pos + 1)
    ELSE 1 + CountAtoms(tokens, parse_raw_atom(tokens, pos).pos)

\* The token at which Parser::parse_or_expr returns to parse_query.
StoppedAt ==
    With(lex(qText), LAMBDA tokens : peek(tokens, parse_or_expr(tokens, 0, qChecks).pos))

\* C28: parse_query accounts for every token of its input: whatever the
\* input, unbalanced parentheses included, the parser stops at Eof only,
\* and every term of the input (each Ident, Number or String token, a
\* field atom counted once) is a leaf of the expression returned, one leaf
\* per term.
C28_EveryTokenParsed ==
    ParseCalled /\ ~qOut.panic =>
        /\ StoppedAt = "Eof"
        /\ CountLeaves(ParsedExpr) = CountAtoms(lex(qText), 0)

\* Every leaf returned stands for a term of the input, and no term is left
\* out unless the parser stopped at a ')' that closes nothing.
TermsDroppedAtStrayParenOnly ==
    ParseCalled /\ ~qOut.panic =>
        /\ StoppedAt \in {"Eof", "RParen"}
        /\ CountLeaves(ParsedExpr) <= CountAtoms(lex(qText), 0)
        /\ StoppedAt = "Eof" => CountLeaves(ParsedExpr) = CountAtoms(lex(qText), 0)
====
